---- MODULE Spec2Model ----
(***************************************************************************)
(* A model of the execution core of motifstudio's server:                  *)
(*   - HostProviderRouter        (server/src/host_provider/router.py)      *)
(*   - the providers' accepts()  (host_provider/host_provider/*.py)        *)
(*   - HostProviderRouterGlobalDep, the host registry (server/commons.py)  *)
(*   - run_with_limits, the resource-limited executor (server/commons.py)  *)
(*                                                                         *)
(* Strings that the code takes apart (URIs, file names) are sequences of   *)
(* tokens, so that startswith / endswith / slicing are computed, not       *)
(* assumed.  Python's None is the string "None".                           *)
(***************************************************************************)
EXTENDS Integers, Sequences, FiniteSets, TLC

VARIABLES
    providers,        \* HostProviderRouter._providers: an insertion-ordered dict, as a sequence of [id, provider]
    uploaded_files,   \* TemporaryGraphHostProvider._uploaded_files: temp_id -> [filepath, expires_at]
    now,              \* time.time(), in units of one expiration period
    ret,              \* the last router / provider call: its name, arguments and return value (RouterCall)
    all_hosts,        \* HostProviderRouterGlobalDep.all_hosts
    temporary_hosts,  \* HostProviderRouterGlobalDep.temporary_hosts
    reg,              \* the last registry call: its name, argument and return value (RegistryCall)
    call,             \* run_with_limits' arguments: timeout_seconds, and what func does when run
    cpc,              \* where the caller is in run_with_limits
    wpc,              \* the worker process: "unstarted", "limits", "running", "exiting", "exited"
    clock,            \* wall-clock time of the executor
    deadline,         \* when the pending proc.join(timeout) gives up (none: the empty sequence)
    finish_at,        \* when func comes to its end in the worker
    feeder,           \* the worker's side of queue: messages put and not yet written to the pipe
    pipe,             \* the pipe of queue: messages the caller can read
    signals,          \* signals sent to the worker: [term, kill]
    starts,           \* how many times proc.start() has run
    outcome,          \* how run_with_limits ended: [returned, raised]
    rlimit,           \* the worker's resource limits, as getrlimit gives them: [as, cpu], each <<soft, hard>>
    attempts,         \* the setrlimit calls the worker has made, in order: [resource, result]
    request,          \* the query request a handler is serving, with what the host and the graph do
    max_duration_seconds, \* HostProviderRouterGlobalDep.max_duration_seconds (none: the empty sequence)
    query_limits,     \* HostProviderRouterGlobalDep.max_ram_pct, as <<numerator, denominator>>, and .max_ram_bytes
    machine,          \* what the machine tells get_total_ram_bytes: [system, meminfo, sysctl, psutil]
    ram_limit,        \* the handler's local ram_limit (not computed yet: the empty sequence)
    hpc,              \* where the query handler is
    bounded,          \* the run_with_limits calls the handler has made, in order: [op, max_ram_bytes, outcome, elapsed, grace]
    direct,           \* the provider operations the handler has run on the serving task, in order
    response,         \* what the handler gave back: [kind, status, motif_count, error, results]
    agg,              \* the last call into the aggregation pipeline: its name, arguments and result (AggCall)
    scan              \* a read of the provider table or of the unlisted hosts in progress on another thread (Scan)

routerVars == <<providers, uploaded_files, now, ret>>
registryVars == <<all_hosts, temporary_hosts, reg>>
limitVars == <<rlimit, attempts>>
execVars == <<call, cpc, wpc, clock, deadline, finish_at, feeder, pipe, signals, starts, outcome, limitVars>>
handlerVars ==
    <<request, max_duration_seconds, query_limits, machine, ram_limit, hpc, bounded, direct, response>>
aggVars == <<agg>>
scanVars == <<scan>>
vars == <<routerVars, registryVars, execVars, handlerVars, aggVars, scanVars>>
notRouter == <<registryVars, execVars, handlerVars, aggVars, scanVars>>
notRegistry == <<routerVars, execVars, handlerVars, aggVars, scanVars>>
notExec == <<routerVars, registryVars, handlerVars, aggVars, scanVars>>
notHandler == <<routerVars, registryVars, execVars, aggVars, scanVars>>
notAgg == <<routerVars, registryVars, execVars, handlerVars, scanVars>>

None == "None"

-----------------------------------------------------------------------------
(* Bounds of the model *)

MaxNow == 2          \* the clock runs 0 .. MaxNow
MaxConfigHosts == 2  \* longest "hosts" list of a configuration
MaxTempHosts == 2    \* add_temporary_host is not taken beyond this many unlisted hosts
MaxTimeout == 2      \* timeout_seconds is None or 1 .. MaxTimeout
MaxDuration == 3     \* func runs for 0 .. MaxDuration, or for ever
MaxRam == 2          \* max_ram_bytes is None or 1 .. MaxRam
MaxHard == 2         \* a hard ceiling is unlimited or 1 .. MaxHard
MaxMemTotal == 3     \* a source of the total memory gives 1 .. MaxMemTotal, or nothing
PipeCapacity == 1    \* what the OS pipe under queue buffers with no reader; payloads are 1 or PipeCapacity + 1 big

-----------------------------------------------------------------------------
(* str.startswith, str.endswith and slicing, on token sequences *)

StartsWith(s, prefix) == Len(s) >= Len(prefix) /\ SubSeq(s, 1, Len(prefix)) = prefix

EndsWith(s, suffix) == Len(s) >= Len(suffix) /\ SubSeq(s, Len(s) - Len(suffix) + 1, Len(s)) = suffix

\* s[n:]
DropFirst(s, n) == SubSeq(s, n + 1, Len(s))

-----------------------------------------------------------------------------
(* The providers *)

\* The keys of ACCEPTED_EXTENSIONS (they carry no leading dot).
ACCEPTED_EXTENSIONS ==
    { <<"graphml">>, <<"graphml", ".", "gz">>, <<"gml">>, <<"gexf">>,
      <<"gexf", ".", "gz">>, <<"pickle">>, <<"gpickle">> }

\* SingleFileGraphHostProvider.accepts
SingleFileAccepts(uri) == \E ext \in ACCEPTED_EXTENSIONS : EndsWith(uri, ext)

\* The provider instances of the model.  Two S3 providers of the same bucket
\* are two objects (test_can_shadow_provider), told apart by their name.
ProviderInstances == {"s3_foo_1", "s3_foo_2", "fs", "temp"}

ProviderType(p) ==
    CASE p \in {"s3_foo_1", "s3_foo_2"} -> "S3GraphMLHostProvider"
      [] p \in {"fs", "fs_data"} -> "FilesystemGraphHostProvider"
      [] p = "oc" -> "OpenCypherHostProvider"
      [] p \in {"temp", "temp_cfg"} -> "TemporaryGraphHostProvider"

\* S3GraphMLHostProvider.bucket
Bucket(p) == "foo"

\* FilesystemGraphHostProvider.root (the default, "", or "/data")
Root(p) == IF p = "fs_data" THEN <<"/data">> ELSE <<>>

\* S3GraphMLHostProvider.accepts
S3Accepts(p, uri) == StartsWith(uri, <<"s3://", Bucket(p), "/">>) /\ SingleFileAccepts(uri)

\* FilesystemGraphHostProvider.accepts
FilesystemAccepts(p, uri) == StartsWith(uri, <<"file://">> \o Root(p)) /\ SingleFileAccepts(uri)

\* OpenCypherHostProvider.accepts
OpenCypherAccepts(uri) == StartsWith(uri, <<"opencypher://">>)

\* TemporaryGraphHostProvider._cleanup_single_file: drops the entry (and the file on disk)
CleanupSingleFile(files, temp_id) ==
    IF temp_id \notin DOMAIN files THEN files
    ELSE [t \in DOMAIN files \ {temp_id} |-> files[t]]

\* uri[7:] as a key of _uploaded_files: the rest of the URI is one whole temp_id.
TempIdOf(uri) == LET rest == DropFirst(uri, 1) IN IF Len(rest) = 1 THEN rest[1] ELSE None

\* accepts as it would be without the check of expires_at.
TemporaryAcceptsUnexpiring(files, time, uri) ==
    IF ~StartsWith(uri, <<"temp://">>) THEN [ok |-> FALSE, files |-> files]
    ELSE LET temp_id == TempIdOf(uri) IN
         IF temp_id \in DOMAIN files
         THEN [ok |-> SingleFileAccepts(files[temp_id].filepath)
                       \/ EndsWith(files[temp_id].filepath, <<".", "csv">>),
               files |-> files]
         ELSE [ok |-> FALSE, files |-> files]

\* TemporaryGraphHostProvider.accepts: the answer and the table it leaves behind.
TemporaryAccepts(files, time, uri) ==
    IF ~StartsWith(uri, <<"temp://">>) THEN [ok |-> FALSE, files |-> files]
    ELSE LET temp_id == TempIdOf(uri) IN
         IF temp_id \in DOMAIN files
         THEN IF time > files[temp_id].expires_at
              THEN [ok |-> FALSE, files |-> CleanupSingleFile(files, temp_id)]
              ELSE [ok |-> SingleFileAccepts(files[temp_id].filepath)
                            \/ EndsWith(files[temp_id].filepath, <<".", "csv">>),
                    files |-> files]
         ELSE [ok |-> FALSE, files |-> files]

\* The table of a TemporaryGraphHostProvider built from the configuration
\* ("temp_cfg"): the upload handlers store into their own instance ("temp",
\* the module's _temp_provider), so no upload made while the server runs is in it.
NoFiles == [t \in {} |-> None]

\* provider.accepts(uri), by the class of the provider
Accepts(p, files, time, uri) ==
    CASE ProviderType(p) = "S3GraphMLHostProvider" -> [ok |-> S3Accepts(p, uri), files |-> files]
      [] ProviderType(p) = "FilesystemGraphHostProvider" -> [ok |-> FilesystemAccepts(p, uri), files |-> files]
      [] ProviderType(p) = "OpenCypherHostProvider" -> [ok |-> OpenCypherAccepts(uri), files |-> files]
      [] ProviderType(p) = "TemporaryGraphHostProvider" ->
           IF p = "temp" THEN TemporaryAccepts(files, time, uri)
           ELSE [ok |-> TemporaryAccepts(NoFiles, time, uri).ok, files |-> files]

-----------------------------------------------------------------------------
(* HostProviderRouter *)

\* The for loop of provider_for from item i on: the provider returned and the
\* provider state left behind by the accepts() calls made on the way.
RECURSIVE ProviderForFrom(_, _, _, _, _)
ProviderForFrom(table, i, files, time, uri) ==
    IF i > Len(table) THEN [value |-> None, files |-> files]
    ELSE LET a == Accepts(table[i].provider, files, time, uri) IN
         IF a.ok THEN [value |-> table[i].provider, files |-> a.files]
         ELSE ProviderForFrom(table, i + 1, a.files, time, uri)

\* provider_for as it would be if the scan ran from the newest provider back.
RECURSIVE ProviderForBackFrom(_, _, _, _, _)
ProviderForBackFrom(table, i, files, time, uri) ==
    IF i < 1 THEN [value |-> None, files |-> files]
    ELSE LET a == Accepts(table[i].provider, files, time, uri) IN
         IF a.ok THEN [value |-> table[i].provider, files |-> a.files]
         ELSE ProviderForBackFrom(table, i - 1, a.files, time, uri)

provider_for_newest_first(table, files, time, uri) == ProviderForBackFrom(table, Len(table), files, time, uri)

\* HostProviderRouter.provider_for
provider_for(table, files, time, uri) == ProviderForFrom(table, 1, files, time, uri)

\* add_provider as it would be with dict.setdefault: a held id keeps its provider.
DictSetDefault(table, id, provider) ==
    IF \E i \in 1..Len(table) : table[i].id = id
    THEN table
    ELSE Append(table, [id |-> id, provider |-> provider])

\* add_provider as it would be if a held id were deleted and inserted anew.
DictSetAtEnd(table, id, provider) ==
    Append(SelectSeq(table, LAMBDA item : item.id # id), [id |-> id, provider |-> provider])

\* self._providers[id] = provider: a dict keeps the position of a key it already holds
DictSet(table, id, provider) ==
    IF \E i \in 1..Len(table) : table[i].id = id
    THEN [i \in 1..Len(table) |->
            IF table[i].id = id THEN [id |-> id, provider |-> provider] ELSE table[i]]
    ELSE Append(table, [id |-> id, provider |-> provider])

\* host if isinstance(host, str) else host.uri
HostUri(host) == IF host.kind = "str" THEN host.str ELSE host.listing[1].uri

\* The list comprehension of validate_all_hosts from element i on.
RECURSIVE ValidateFrom(_, _, _, _, _)
ValidateFrom(table, hosts, i, files, time) ==
    IF i > Len(hosts) THEN [value |-> <<>>, files |-> files]
    ELSE LET r == provider_for(table, files, time, HostUri(hosts[i]))
             rest == ValidateFrom(table, hosts, i + 1, r.files, time)
         IN [value |-> <<r.value # None>> \o rest.value, files |-> rest.files]

\* validate_all_hosts as it would be if it gave up at the first unroutable host.
RECURSIVE ValidateUntilFrom(_, _, _, _, _)
ValidateUntilFrom(table, hosts, i, files, time) ==
    IF i > Len(hosts) THEN [value |-> <<>>, files |-> files]
    ELSE LET r == provider_for(table, files, time, HostUri(hosts[i])) IN
         IF r.value = None THEN [value |-> <<FALSE>>, files |-> r.files]
         ELSE LET rest == ValidateUntilFrom(table, hosts, i + 1, r.files, time)
              IN [value |-> <<TRUE>> \o rest.value, files |-> rest.files]

validate_all_hosts_fail_fast(table, hosts, files, time) == ValidateUntilFrom(table, hosts, 1, files, time)

\* HostProviderRouter.validate_all_hosts
validate_all_hosts(table, hosts, files, time) == ValidateFrom(table, hosts, 1, files, time)

-----------------------------------------------------------------------------
(* TemporaryGraphHostProvider.store_file *)

TempIds == {"t1"}

\* expiration_days * 24 * 60 * 60, in the clock's unit
expiration_seconds == 1

\* Path(original_filename).suffix: from the last dot on, "" when there is none
\* (or when the only dot leads the name).
PathSuffix(name) ==
    LET dots == {i \in 2..Len(name) : name[i] = "."} IN
    IF dots = {} \/ name[Len(name)] = "."
    THEN <<>>
    ELSE SubSeq(name, CHOOSE i \in dots : \A j \in dots : j <= i, Len(name))

\* The file_info store_file records for a new temp_id.
StoredFileInfo(temp_id, original_filename, time) ==
    LET suffix == PathSuffix(original_filename)
        file_ext == IF suffix = <<>> THEN <<".", "graphml">> ELSE suffix
    IN [filepath |-> <<"motifstudio_uploads", "/", temp_id>> \o file_ext,
        expires_at |-> time + expiration_seconds]

\* self._uploaded_files[temp_id] = file_info
store_file(files, temp_id, original_filename, time) ==
    [t \in DOMAIN files \cup {temp_id} |->
        IF t = temp_id THEN StoredFileInfo(temp_id, original_filename, time) ELSE files[t]]

-----------------------------------------------------------------------------------------------------------------------------------------------------
(* The router's inputs *)

ProviderIds == {"ID1", "ID2"}

U_s3_foo == <<"s3://", "foo", "/", "bar", ".", "graphml">>
U_s3_baz == <<"s3://", "baz", "/", "baz", ".", "graphml", ".", "gz">>
U_file == <<"file://", "/tmp/foo", ".", "graphml">>
U_cheese == <<"cheese://", "/tmp/foo", ".", "graphml">>
U_temp(t) == <<"temp://", t>>

Uris == {U_s3_foo, U_s3_baz, U_file, U_cheese} \cup {U_temp(t) : t \in TempIds}

Filenames == { <<"graph", ".", "graphml">>, <<"notes", ".", "txt">> }

\* A HostListing, with the fields the modelled code reads.
Listing(id, uri, name) == [id |-> id, uri |-> uri, name |-> name]

\* An element of the list handed to validate_all_hosts: a str, or a
\* HostListing (held in a one-element sequence).
StrHost(uri) == [kind |-> "str", str |-> uri, listing |-> <<>>]
ListingHost(l) == [kind |-> "listing", str |-> <<>>, listing |-> <<l>>]

invalid_host == ListingHost(Listing("none", U_cheese, "Invalid Host"))
valid_host == ListingHost(Listing("none", U_file, "Valid Host"))

\* What validate_all_hosts is handed: lists of URIs and lists of HostListings
\* (test_can_validate_host_uris, test_can_validate_hostlistings), and uploads.
HostLists ==
    { <<>>,
      <<StrHost(U_cheese)>>,
      <<StrHost(U_file), StrHost(U_cheese)>>,
      <<invalid_host, valid_host>>,
      <<valid_host, valid_host>>,
      <<StrHost(U_s3_foo), invalid_host, StrHost(U_temp("t1"))>>,
      <<StrHost(U_temp("t1")), StrHost(U_temp("t1"))>> }

\* The record of a router / provider call.  Every field keeps one type:
\* id, provider, value, after, temp_id, raised, reader are strings (None when
\* unused), uri and filename token sequences, hosts a list of hosts, valid a
\* list of booleans, vertices and count numbers.
NoRouterCall ==
    [op |-> "init", id |-> None, provider |-> None, uri |-> <<>>, hosts |-> <<>>,
     value |-> None, valid |-> <<>>, after |-> None, filename |-> <<>>, temp_id |-> None,
     raised |-> None, reader |-> None, vertices |-> 0, count |-> 0]

\* No read in progress.  A read in progress: op is the reader, id and uri its
\* argument, phase the loop it is in, pos how many items its iterator has
\* handed out, size the length the dict had when its iterator was made;
\* found_uri (at most one URI), value (a provider) and raised are how it
\* ended; changed collects the ids that were added, replaced or removed
\* while the read was in progress.
NoScan ==
    [op |-> "none", id |-> None, uri |-> <<>>, phase |-> "idle", pos |-> 0, size |-> 0,
     found_uri |-> <<>>, value |-> None, raised |-> None, changed |-> {}]

\* run_with_limits not called: its variables at rest.
NoInvocation ==
    [max_ram_bytes |-> <<>>, timeout_seconds |-> <<>>, kind |-> "return", duration |-> 0,
     payload |-> None, error |-> None, ignores_sigterm |-> FALSE]

\* resource.RLIM_INFINITY as the resource module has it on Linux.
RLIM_INFINITY == -1

\* A process nobody has limited.
NoLimits ==
    [as |-> <<RLIM_INFINITY, RLIM_INFINITY>>, cpu |-> <<RLIM_INFINITY, RLIM_INFINITY>>]
\* No handler running: its variables at rest.  A request names its handler
\* and host, and says what the query, the aggregation directive, the provider
\* and the graph are like; results are [form, list, counts, motif_counts]: a
\* list of matches, or a count for every host vertex and motif vertex, or a
\* count for every motif vertex and host vertex.
MaxVertex == 2       \* host vertices are 1 .. MaxVertex
MotifVerts == {"A", "B"}
HostVerts == 1..MaxVertex
NoCounts == [h \in HostVerts |-> [m \in MotifVerts |-> 0]]
NoMotifCounts == [m \in MotifVerts |-> [h \in HostVerts |-> 0]]
NoResults == [form |-> "list", list |-> <<>>, counts |-> NoCounts, motif_counts |-> NoMotifCounts]
NoRequest ==
    [handler |-> None, host |-> "found", query_type |-> "dotmotif", query_ok |-> TRUE,
     aggregation_type |-> <<>>, networkx |-> TRUE, graph_ok |-> TRUE, matches |-> <<>>]
NoResponse ==
    [kind |-> "none", status |-> 0, motif_count |-> 0, error |-> None, results |-> NoResults]

\* The arguments of a transform: every key optional (none: the empty sequence).
NoArgs == [limit |-> <<>>, a |-> <<>>]

\* The record of a call into the aggregation pipeline.  Every field keeps one
\* type: directive is a token sequence, kind the text get_aggregator compares,
\* aggregator and raised strings (None when unused), results and after the
\* input list before and after the call, list / host_verts / motif_verts
\* what aggregate returned, trace the calls get_motifs made, in order.
NoAggCall ==
    [op |-> "init", directive |-> <<>>, kind |-> <<>>, aggregator |-> None, args |-> NoArgs,
     raised |-> None, results |-> <<>>, after |-> <<>>, list |-> <<>>, host_verts |-> <<>>,
     motif_verts |-> <<>>, trace |-> <<>>]

\* A config without "query_limits", and a Linux machine with one kB of memory.
NoQueryLimits == [max_ram_pct |-> <<>>, max_ram_bytes |-> <<>>]
NoMachine ==
    [system |-> "Linux", meminfo_opens |-> TRUE, MemTotal |-> <<1>>, hw_memsize |-> <<>>,
     psutil |-> <<>>]

NoSignals == [term |-> FALSE, kill |-> FALSE]
NoOutcome == [returned |-> <<>>, raised |-> None]

\* The record of a registry call: id a string, uri a token sequence, host /
\* listing sequences of at most one HostListing, found_uri a sequence of at
\* most one URI, name a string, removed a boolean.
NoRegistryCall ==
    [op |-> "init", id |-> None, uri |-> <<>>, host |-> <<>>,
     found_uri |-> <<>>, listing |-> <<>>, name |-> None, removed |-> FALSE,
     listed |-> <<>>]

-----------------------------------------------------------------------------
(* The router's operations *)

\* router.add_provider(id, provider)
AddProvider(id, provider) ==
    /\ providers' = DictSet(providers, id, provider)
    /\ ret' = [NoRouterCall EXCEPT !.op = "add_provider", !.id = id, !.provider = provider]
    /\ UNCHANGED <<uploaded_files, now>>
    /\ UNCHANGED notRouter

\* router.provider_for(uri); `after` remembers the id an add_provider call
\* registered immediately before this call.
ProviderFor(uri) ==
    LET r == provider_for(providers, uploaded_files, now, uri) IN
    /\ uploaded_files' = r.files
    /\ ret' = [NoRouterCall EXCEPT !.op = "provider_for", !.uri = uri, !.value = r.value,
                                    !.after = IF ret.op = "add_provider" THEN ret.id ELSE None]
    /\ UNCHANGED <<providers, now>>
    /\ UNCHANGED notRouter

\* router.validate_all_hosts(hosts)
ValidateAllHosts(hosts) ==
    LET r == validate_all_hosts(providers, hosts, uploaded_files, now) IN
    /\ uploaded_files' = r.files
    /\ ret' = [NoRouterCall EXCEPT !.op = "validate_all_hosts", !.hosts = hosts, !.valid = r.value]
    /\ UNCHANGED <<providers, now>>
    /\ UNCHANGED notRouter

\* _temp_provider.store_file(content, original_filename); uuid4 gives an unused id
StoreFile(temp_id, original_filename) ==
    /\ temp_id \notin DOMAIN uploaded_files
    /\ uploaded_files' = store_file(uploaded_files, temp_id, original_filename, now)
    /\ ret' = [NoRouterCall EXCEPT !.op = "store_file", !.filename = original_filename,
                                    !.temp_id = temp_id]
    /\ UNCHANGED <<providers, now>>
    /\ UNCHANGED notRouter

\* Time passes.
Tick ==
    /\ now < MaxNow
    /\ now' = now + 1
    /\ UNCHANGED <<providers, uploaded_files, ret>>
    /\ UNCHANGED notRouter

\* HostProviderRouter(): an empty router; a fresh TemporaryGraphHostProvider.
RouterInit ==
    /\ providers = <<>>
    /\ uploaded_files = [t \in {} |-> None]
    /\ now = 0
    /\ ret = NoRouterCall
    /\ all_hosts = <<>>
    /\ temporary_hosts = <<>>
    /\ reg = NoRegistryCall
    /\ call = NoInvocation
    /\ cpc = "idle"
    /\ wpc = "unstarted"
    /\ clock = 0
    /\ deadline = <<>>
    /\ finish_at = 0
    /\ feeder = <<>>
    /\ pipe = <<>>
    /\ signals = NoSignals
    /\ starts = 0
    /\ outcome = NoOutcome
    /\ rlimit = NoLimits
    /\ attempts = <<>>
    /\ agg = NoAggCall
    /\ scan = NoScan
    /\ request = NoRequest
    /\ max_duration_seconds = <<>>
    /\ query_limits = NoQueryLimits
    /\ machine = NoMachine
    /\ ram_limit = <<>>
    /\ hpc = "idle"
    /\ bounded = <<>>
    /\ direct = <<>>
    /\ response = NoResponse

AddProviderStep == \E id \in ProviderIds, p \in ProviderInstances : AddProvider(id, p)
ProviderForStep == \E uri \in Uris : ProviderFor(uri)
ValidateAllHostsStep == \E hosts \in HostLists : ValidateAllHosts(hosts)
StoreFileStep == \E t \in TempIds, name \in Filenames : StoreFile(t, name)

RouterNext ==
    \/ AddProviderStep
    \/ ProviderForStep
    \/ ValidateAllHostsStep
    \/ StoreFileStep
    \/ Tick

RouterSpec == RouterInit /\ [][RouterNext]_vars

-----------------------------------------------------------------------------
(* HostProviderRouterGlobalDep: the host registry *)

\* The position of the first listing of hosts whose id is id, 0 when the loop
\* runs out (for host in hosts: if host.id == id: return ...).
RECURSIVE FirstWithId(_, _, _)
FirstWithId(hosts, i, id) ==
    IF i > Len(hosts) THEN 0
    ELSE IF hosts[i].id = id THEN i
    ELSE FirstWithId(hosts, i + 1, id)

\* The same loop on host.uri == uri.
RECURSIVE FirstWithUri(_, _, _)
FirstWithUri(hosts, i, uri) ==
    IF i > Len(hosts) THEN 0
    ELSE IF hosts[i].uri = uri THEN i
    ELSE FirstWithUri(hosts, i + 1, uri)

\* get_uri_from_id as it would be with the two loops swapped.
get_uri_from_id_unlisted_first(public, unlisted, id) ==
    LET t == FirstWithId(unlisted, 1, id)
        a == FirstWithId(public, 1, id)
    IN IF t # 0 THEN <<unlisted[t].uri>>
       ELSE IF a # 0 THEN <<public[a].uri>>
       ELSE <<>>

\* HostProviderRouterGlobalDep.get_uri_from_id; a URI is returned inside a
\* one-element sequence, None as the empty one.
get_uri_from_id(public, unlisted, id) ==
    LET a == FirstWithId(public, 1, id)
        t == FirstWithId(unlisted, 1, id)
    IN IF a # 0 THEN <<public[a].uri>>
       ELSE IF t # 0 THEN <<unlisted[t].uri>>
       ELSE <<>>

\* HostProviderRouterGlobalDep.get_host_listing_from_id; a listing is
\* returned inside a one-element sequence, None as the empty one.
get_host_listing_from_id(public, unlisted, id) ==
    LET a == FirstWithId(public, 1, id)
        t == FirstWithId(unlisted, 1, id)
    IN IF a # 0 THEN <<public[a]>>
       ELSE IF t # 0 THEN <<unlisted[t]>>
       ELSE <<>>

\* HostProviderRouterGlobalDep.get_name_from_uri
get_name_from_uri(public, unlisted, uri) ==
    LET a == FirstWithUri(public, 1, uri)
        t == FirstWithUri(unlisted, 1, uri)
    IN IF a # 0 THEN public[a].name
       ELSE IF t # 0 THEN unlisted[t].name
       ELSE None

\* del self.temporary_hosts[i]
DeleteAt(hosts, i) == SubSeq(hosts, 1, i - 1) \o SubSeq(hosts, i + 1, Len(hosts))

\* HostProviderRouterGlobalDep.remove_temporary_host: the list left, and the answer
remove_temporary_host(unlisted, host_id) ==
    LET i == FirstWithId(unlisted, 1, host_id) IN
    IF i # 0 THEN [hosts |-> DeleteAt(unlisted, i), value |-> TRUE]
    ELSE [hosts |-> unlisted, value |-> FALSE]

\* The listings of the model: two share an id, two share a uri.
Listings ==
    { Listing("h1", U_file, "A"), Listing("h1", U_temp("t1"), "B"), Listing("h2", U_file, "C") }

HostIds == {"h1", "h2", "h3"}

SeqsUpTo(S, n) == UNION {[1..k -> S] : k \in 0..n}

\* No id is listed twice.
DistinctIds(hosts) == \A i, j \in 1..Len(hosts) : hosts[i].id = hosts[j].id => i = j

\* commons.get_uri_from_id(id)
GetUriFromId(id) ==
    /\ reg' = [NoRegistryCall EXCEPT !.op = "get_uri_from_id", !.id = id,
                  !.found_uri = get_uri_from_id(all_hosts, temporary_hosts, id)]
    /\ UNCHANGED <<all_hosts, temporary_hosts>>
    /\ UNCHANGED notRegistry

\* commons.get_host_listing_from_id(id)
GetHostListingFromId(id) ==
    /\ reg' = [NoRegistryCall EXCEPT !.op = "get_host_listing_from_id", !.id = id,
                  !.listing = get_host_listing_from_id(all_hosts, temporary_hosts, id)]
    /\ UNCHANGED <<all_hosts, temporary_hosts>>
    /\ UNCHANGED notRegistry

\* commons.get_name_from_uri(uri)
GetNameFromUri(uri) ==
    /\ reg' = [NoRegistryCall EXCEPT !.op = "get_name_from_uri", !.uri = uri,
                  !.name = get_name_from_uri(all_hosts, temporary_hosts, uri)]
    /\ UNCHANGED <<all_hosts, temporary_hosts>>
    /\ UNCHANGED notRegistry

\* commons.add_temporary_host(host)
AddTemporaryHost(host) ==
    /\ Len(temporary_hosts) < MaxTempHosts
    /\ temporary_hosts' = Append(temporary_hosts, host)
    /\ reg' = [NoRegistryCall EXCEPT !.op = "add_temporary_host", !.host = <<host>>]
    /\ UNCHANGED all_hosts
    /\ UNCHANGED notRegistry

\* commons.remove_temporary_host(host_id)
RemoveTemporaryHost(host_id) ==
    LET r == remove_temporary_host(temporary_hosts, host_id) IN
    /\ temporary_hosts' = r.hosts
    /\ reg' = [NoRegistryCall EXCEPT !.op = "remove_temporary_host", !.id = host_id,
                                      !.removed = r.value]
    /\ UNCHANGED all_hosts
    /\ UNCHANGED notRegistry

\* HostProviderRouterGlobalDep(config): the hosts of the configuration, each
\* id listed once (a well-formed configuration), and no unlisted host.
RegistryInit ==
    /\ all_hosts \in {c \in SeqsUpTo(Listings, MaxConfigHosts) : DistinctIds(c)}
    /\ temporary_hosts = <<>>
    /\ reg = NoRegistryCall
    /\ providers = <<>>
    /\ uploaded_files = [t \in {} |-> None]
    /\ now = 0
    /\ ret = NoRouterCall
    /\ call = NoInvocation
    /\ cpc = "idle"
    /\ wpc = "unstarted"
    /\ clock = 0
    /\ deadline = <<>>
    /\ finish_at = 0
    /\ feeder = <<>>
    /\ pipe = <<>>
    /\ signals = NoSignals
    /\ starts = 0
    /\ outcome = NoOutcome
    /\ rlimit = NoLimits
    /\ attempts = <<>>
    /\ agg = NoAggCall
    /\ scan = NoScan
    /\ request = NoRequest
    /\ max_duration_seconds = <<>>
    /\ query_limits = NoQueryLimits
    /\ machine = NoMachine
    /\ ram_limit = <<>>
    /\ hpc = "idle"
    /\ bounded = <<>>
    /\ direct = <<>>
    /\ response = NoResponse

GetUriFromIdStep == \E id \in HostIds : GetUriFromId(id)
GetHostListingFromIdStep == \E id \in HostIds : GetHostListingFromId(id)
GetNameFromUriStep == \E uri \in {U_file, U_temp("t1"), U_cheese} : GetNameFromUri(uri)
AddTemporaryHostStep == \E host \in Listings : AddTemporaryHost(host)
RemoveTemporaryHostStep == \E id \in HostIds : RemoveTemporaryHost(id)

RegistryNext ==
    \/ GetUriFromIdStep
    \/ GetHostListingFromIdStep
    \/ GetNameFromUriStep
    \/ AddTemporaryHostStep
    \/ RemoveTemporaryHostStep

RegistrySpec == RegistryInit /\ [][RegistryNext]_vars

-----------------------------------------------------------------------------
(* run_with_limits and _run_with_limits_target: the resource-limited executor *)
(*                                                                         *)
(* One behaviour is one invocation.  func is described by what it does when *)
(* run in the worker: it returns a payload, raises an error, dies with the *)
(* process (killed by the OS: the memory or CPU ceiling, a crash) or never *)
(* comes back; it takes `duration` units of time; and it may have made the *)
(* process deaf to SIGTERM.  Steps of the caller and of the worker take no *)
(* time; time passes (ClockTick) only when none of them can be taken and   *)
(* somebody waits for a later moment.                                      *)

Payloads == {"small_result", "large_result"}

\* The pickled size of what goes through the queue.
Size(payload) == IF payload = "large_result" THEN PipeCapacity + 1 ELSE 1

\* What func can raise: an application error, MemoryError under the address-space
\* ceiling, or an error object that cannot be pickled.
Errors == {"ValueError", "MemoryError", "UnpicklableError"}

\* The queue pickles what is put: whether _ForkingPickler.dumps succeeds on it.
Picklable(payload) == payload # "UnpicklableError"

Timeouts == {<<>>} \cup {<<n>> : n \in 1..MaxTimeout}

RamLimits == {<<>>} \cup {<<n>> : n \in 1..MaxRam}

Invocations ==
    { [max_ram_bytes |-> m, timeout_seconds |-> t, kind |-> k, duration |-> d, payload |-> p,
       error |-> e, ignores_sigterm |-> g] :
         m \in RamLimits, t \in Timeouts, k \in {"return", "raise", "die", "hang"}, d \in 0..MaxDuration,
         p \in Payloads \cup {None}, e \in Errors \cup {None}, g \in BOOLEAN }

\* Each kind of func with the attributes that kind reads, the others at rest.
WellFormed(c) ==
    /\ (c.kind = "return") <=> (c.payload # None)
    /\ (c.kind = "raise") <=> (c.error # None)
    /\ c.kind = "hang" => c.duration = 0

\* proc.is_alive()
IsAlive == wpc \notin {"unstarted", "exited"}

\* The moment proc.join(timeout) gives up: none for join(None).
JoinDeadline(timeout, time) == IF timeout = <<>> THEN <<>> ELSE <<time + timeout[1]>>

\* proc.join(timeout) as it would be with the timeout dropped: proc.join().
JoinReturnsOnExitOnly(limit, time, alive) == ~alive

\* proc.join(timeout) returns: the process has exited, or the deadline is reached.
JoinReturns(limit, time, alive) == ~alive \/ (limit # <<>> /\ time >= limit[1])

\* queue = mp.Queue(); proc = mp.Process(...); proc.start(); proc.join(timeout_seconds) begins
CallerStart ==
    /\ cpc = "start"
    /\ starts' = starts + 1
    /\ wpc' = "limits"
    /\ deadline' = JoinDeadline(call.timeout_seconds, clock)
    /\ cpc' = "join1"
    /\ UNCHANGED <<call, clock, finish_at, feeder, pipe, signals, outcome>>
    /\ UNCHANGED limitVars
    /\ UNCHANGED notExec

\* proc.join(timeout_seconds) returns (line 116)
CallerJoin1 ==
    /\ cpc = "join1"
    /\ JoinReturns(deadline, clock, IsAlive)
    /\ cpc' = "alive1"
    /\ UNCHANGED <<call, wpc, clock, deadline, finish_at, feeder, pipe, signals, starts, outcome>>
    /\ UNCHANGED limitVars
    /\ UNCHANGED notExec

\* if proc.is_alive() (line 117)
CallerIsAlive1 ==
    /\ cpc = "alive1"
    /\ cpc' = IF IsAlive THEN "terminate" ELSE "empty"
    /\ UNCHANGED <<call, wpc, clock, deadline, finish_at, feeder, pipe, signals, starts, outcome>>
    /\ UNCHANGED limitVars
    /\ UNCHANGED notExec

\* proc.terminate(); proc.join(timeout_seconds) begins (lines 118-119)
CallerTerminate ==
    /\ cpc = "terminate"
    /\ signals' = [signals EXCEPT !.term = TRUE]
    /\ deadline' = JoinDeadline(call.timeout_seconds, clock)
    /\ cpc' = "join2"
    /\ UNCHANGED <<call, wpc, clock, finish_at, feeder, pipe, starts, outcome>>
    /\ UNCHANGED limitVars
    /\ UNCHANGED notExec

\* the second proc.join(timeout_seconds) returns (line 119)
CallerJoin2 ==
    /\ cpc = "join2"
    /\ JoinReturns(deadline, clock, IsAlive)
    /\ cpc' = "alive2"
    /\ UNCHANGED <<call, wpc, clock, deadline, finish_at, feeder, pipe, signals, starts, outcome>>
    /\ UNCHANGED limitVars
    /\ UNCHANGED notExec

\* if proc.is_alive() and hasattr(proc, "kill") (line 121)
CallerIsAlive2 ==
    /\ cpc = "alive2"
    /\ cpc' = IF IsAlive THEN "kill" ELSE "raise_timeout"
    /\ UNCHANGED <<call, wpc, clock, deadline, finish_at, feeder, pipe, signals, starts, outcome>>
    /\ UNCHANGED limitVars
    /\ UNCHANGED notExec

\* CallerKill as it would be without the escalation: nothing is sent.
CallerGivesUp ==
    /\ cpc = "kill"
    /\ cpc' = "join0"
    /\ UNCHANGED <<call, wpc, clock, deadline, finish_at, feeder, pipe, signals, starts, outcome>>
    /\ UNCHANGED limitVars
    /\ UNCHANGED notExec

\* proc.kill() (line 122): SIGKILL is sent; the process dies when the signal reaches it
CallerKill ==
    /\ cpc = "kill"
    /\ signals' = [signals EXCEPT !.kill = TRUE]
    /\ cpc' = "join0"
    /\ UNCHANGED <<call, wpc, clock, deadline, finish_at, feeder, pipe, starts, outcome>>
    /\ UNCHANGED limitVars
    /\ UNCHANGED notExec

\* proc.join(0) (line 123): one look at the process, no wait
CallerJoin0 ==
    /\ cpc = "join0"
    /\ cpc' = "raise_timeout"
    /\ UNCHANGED <<call, wpc, clock, deadline, finish_at, feeder, pipe, signals, starts, outcome>>
    /\ UNCHANGED limitVars
    /\ UNCHANGED notExec

\* CallerRaiseTimeout as it would be with a retry: the worker is started again.
CallerRetry ==
    /\ cpc = "raise_timeout"
    /\ starts < 3
    /\ starts' = starts + 1
    /\ wpc' = "limits"
    /\ signals' = NoSignals
    /\ feeder' = <<>>
    /\ deadline' = JoinDeadline(call.timeout_seconds, clock)
    /\ cpc' = "join1"
    /\ UNCHANGED <<call, clock, finish_at, pipe, outcome>>
    /\ UNCHANGED limitVars
    /\ UNCHANGED notExec

\* raise TimeoutError(...) (line 124)
CallerRaiseTimeout ==
    /\ cpc = "raise_timeout"
    /\ outcome' = [returned |-> <<>>, raised |-> "TimeoutError"]
    /\ cpc' = "done"
    /\ UNCHANGED <<call, wpc, clock, deadline, finish_at, feeder, pipe, signals, starts>>
    /\ UNCHANGED limitVars
    /\ UNCHANGED notExec

\* CallerQueueEmpty as it would be without the check: straight on to queue.get().
CallerQueueUnchecked ==
    /\ cpc = "empty"
    /\ cpc' = "get"
    /\ UNCHANGED <<call, wpc, clock, deadline, finish_at, feeder, pipe, signals, starts, outcome>>
    /\ UNCHANGED limitVars
    /\ UNCHANGED notExec

\* if queue.empty(): raise MemoryError(...) (lines 125-126)
CallerQueueEmpty ==
    /\ cpc = "empty"
    /\ IF pipe = <<>>
       THEN outcome' = [returned |-> <<>>, raised |-> "MemoryError"] /\ cpc' = "done"
       ELSE outcome' = outcome /\ cpc' = "get"
    /\ UNCHANGED <<call, wpc, clock, deadline, finish_at, feeder, pipe, signals, starts>>
    /\ UNCHANGED limitVars
    /\ UNCHANGED notExec

\* success, payload = queue.get(); return payload, or raise payload (lines 127-130)
CallerGet ==
    /\ cpc = "get"
    /\ pipe # <<>>
    /\ outcome' = IF Head(pipe).success
                  THEN [returned |-> <<Head(pipe).payload>>, raised |-> None]
                  ELSE [returned |-> <<>>, raised |-> Head(pipe).payload]
    /\ pipe' = Tail(pipe)
    /\ cpc' = "done"
    /\ UNCHANGED <<call, wpc, clock, deadline, finish_at, feeder, signals, starts>>
    /\ UNCHANGED limitVars
    /\ UNCHANGED notExec

\* What resource.setrlimit can do: succeed, or raise one of the two errors
\* the worker catches (the OS or the platform refusing).
SetrlimitResults == {"ok", "ValueError", "OSError"}

\* Python's min on two integers, the sentinel compared as the integer it is.
PyMin(a, b) == IF b < a THEN b ELSE a

\* _, hard = resource.getrlimit(res); resource.setrlimit(res, (min(requested, hard), hard))
Setrlimit(limits, res, requested, result) ==
    IF result = "ok"
    THEN [limits EXCEPT ![res] = <<PyMin(requested, limits[res][2]), limits[res][2]>>]
    ELSE limits

\* The setrlimit calls of lines 82-99, in the order made, for the arguments given.
LimitAttempts(ram, timeout, r_as, r_cpu) ==
    (IF ram # <<>> THEN <<[resource |-> "RLIMIT_AS", result |-> r_as]>> ELSE <<>>)
    \o (IF timeout # <<>> THEN <<[resource |-> "RLIMIT_CPU", result |-> r_cpu]>> ELSE <<>>)

\* WorkerSetLimits as it would be with the inner try blocks gone: a failed
\* setrlimit reaches the outer except, is put as (False, e), and func never runs.
WorkerSetLimitsOrFail ==
    /\ wpc = "limits"
    /\ \E r_as \in SetrlimitResults, r_cpu \in SetrlimitResults :
         LET ram == call.max_ram_bytes
             after_as == IF ram # <<>> THEN Setrlimit(rlimit, "as", ram[1], r_as) ELSE rlimit
             failed_as == ram # <<>> /\ r_as # "ok"
             failed_cpu == call.timeout_seconds # <<>> /\ r_cpu # "ok"
         IN  IF failed_as \/ failed_cpu
             THEN /\ rlimit' = after_as
                  /\ attempts' = LimitAttempts(ram, IF failed_as THEN <<>> ELSE call.timeout_seconds,
                                               r_as, r_cpu)
                  /\ feeder' = Append(feeder, [success |-> FALSE,
                                               payload |-> IF failed_as THEN r_as ELSE r_cpu])
                  /\ wpc' = "exiting"
                  /\ finish_at' = finish_at
             ELSE /\ rlimit' = IF call.timeout_seconds # <<>>
                               THEN Setrlimit(after_as, "cpu", call.timeout_seconds[1], r_cpu)
                               ELSE after_as
                  /\ attempts' = LimitAttempts(ram, call.timeout_seconds, r_as, r_cpu)
                  /\ feeder' = feeder
                  /\ wpc' = "running"
                  /\ finish_at' = clock + call.duration
    /\ UNCHANGED <<call, cpc, clock, deadline, pipe, signals, starts, outcome>>
    /\ UNCHANGED notExec

\* _run_with_limits_target, lines 81-100: the address-space attempt if
\* max_ram_bytes is given, then the CPU-time attempt if timeout_seconds is
\* given, a ValueError or OSError of either passed over; then func begins
WorkerSetLimits ==
    /\ wpc = "limits"
    /\ \E r_as \in SetrlimitResults, r_cpu \in SetrlimitResults :
         LET ram == call.max_ram_bytes
             after_as == IF ram # <<>> THEN Setrlimit(rlimit, "as", ram[1], r_as) ELSE rlimit
         IN  /\ rlimit' = IF call.timeout_seconds # <<>>
                           THEN Setrlimit(after_as, "cpu", call.timeout_seconds[1], r_cpu)
                           ELSE after_as
             /\ attempts' = LimitAttempts(ram, call.timeout_seconds, r_as, r_cpu)
    /\ wpc' = "running"
    /\ finish_at' = clock + call.duration
    /\ UNCHANGED <<call, cpc, clock, deadline, feeder, pipe, signals, starts, outcome>>
    /\ UNCHANGED notExec

\* result = func(*args, **kwargs); queue.put((True, result)), or in the except
\* branch queue.put((False, e)) (lines 100-103); or the process is killed under func
WorkerFinish ==
    /\ wpc = "running"
    /\ call.kind # "hang"
    /\ clock >= finish_at
    /\ CASE call.kind = "return" ->
              /\ feeder' = Append(feeder, [success |-> TRUE, payload |-> call.payload])
              /\ wpc' = "exiting"
         [] call.kind = "raise" ->
              /\ feeder' = Append(feeder, [success |-> FALSE, payload |-> call.error])
              /\ wpc' = "exiting"
         [] call.kind = "die" ->
              /\ feeder' = feeder
              /\ wpc' = "exited"
    /\ UNCHANGED <<call, cpc, clock, deadline, finish_at, pipe, signals, starts, outcome>>
    /\ UNCHANGED limitVars
    /\ UNCHANGED notExec

\* The queue's feeder thread pickles a message and writes it to the pipe: a
\* message that cannot be pickled is dropped (the error goes to stderr); the
\* write completes when the pipe can take the whole message with nobody reading.
FeederFlush ==
    /\ wpc = "exiting"
    /\ feeder # <<>>
    /\ IF Picklable(Head(feeder).payload)
       THEN /\ Size(Head(feeder).payload) <= PipeCapacity
            /\ pipe = <<>>
            /\ pipe' = Append(pipe, Head(feeder))
       ELSE pipe' = pipe
    /\ feeder' = Tail(feeder)
    /\ UNCHANGED <<call, cpc, wpc, clock, deadline, finish_at, signals, starts, outcome>>
    /\ UNCHANGED limitVars
    /\ UNCHANGED notExec

\* The worker process exits: at exit it joins the feeder thread, so only once
\* everything put has been written.
WorkerExit ==
    /\ wpc = "exiting"
    /\ feeder = <<>>
    /\ wpc' = "exited"
    /\ UNCHANGED <<call, cpc, clock, deadline, finish_at, feeder, pipe, signals, starts, outcome>>
    /\ UNCHANGED limitVars
    /\ UNCHANGED notExec

\* A signal sent reaches the worker: SIGKILL always ends it, SIGTERM unless the
\* process is deaf to it.  What the feeder had not written is lost.
WorkerKilled ==
    /\ IsAlive
    /\ signals.kill \/ (signals.term /\ ~call.ignores_sigterm)
    /\ wpc' = "exited"
    /\ feeder' = <<>>
    /\ UNCHANGED <<call, cpc, clock, deadline, finish_at, pipe, signals, starts, outcome>>
    /\ UNCHANGED limitVars
    /\ UNCHANGED notExec

CallerStep ==
    \/ CallerStart \/ CallerJoin1 \/ CallerIsAlive1 \/ CallerTerminate \/ CallerJoin2
    \/ CallerIsAlive2 \/ CallerKill \/ CallerJoin0 \/ CallerRaiseTimeout
    \/ CallerQueueEmpty \/ CallerGet

WorkerStep == WorkerSetLimits \/ WorkerFinish \/ FeederFlush \/ WorkerExit \/ WorkerKilled

\* Somebody waits for a moment that has not come: a join with a deadline, or func.
WaitsForTime ==
    \/ cpc \in {"join1", "join2"} /\ deadline # <<>> /\ clock < deadline[1]
    \/ wpc = "running" /\ call.kind # "hang" /\ clock < finish_at

\* Time passes.
ClockTick ==
    /\ ~ENABLED CallerStep
    /\ ~ENABLED WorkerStep
    /\ WaitsForTime
    /\ clock' = clock + 1
    /\ UNCHANGED <<call, cpc, wpc, deadline, finish_at, feeder, pipe, signals, starts, outcome>>
    /\ UNCHANGED limitVars
    /\ UNCHANGED notExec

\* The limits the worker inherits: each hard ceiling unlimited or a number,
\* the soft limit at the hard one.
HardCeilings ==
    { [as |-> <<a, a>>, cpu |-> <<c, c>>] :
        a \in {RLIM_INFINITY} \cup 1..MaxHard, c \in {RLIM_INFINITY} \cup 1..MaxHard }

\* run_with_limits(func, args, kwargs, max_ram_bytes, timeout_seconds) is called.
ExecInit ==
    /\ call \in {c \in Invocations : WellFormed(c)}
    /\ cpc = "start"
    /\ wpc = "unstarted"
    /\ clock = 0
    /\ deadline = <<>>
    /\ finish_at = 0
    /\ feeder = <<>>
    /\ pipe = <<>>
    /\ signals = NoSignals
    /\ starts = 0
    /\ outcome = NoOutcome
    /\ rlimit = NoLimits
    /\ attempts = <<>>
    /\ agg = NoAggCall
    /\ scan = NoScan
    /\ request = NoRequest
    /\ max_duration_seconds = <<>>
    /\ query_limits = NoQueryLimits
    /\ machine = NoMachine
    /\ ram_limit = <<>>
    /\ hpc = "idle"
    /\ bounded = <<>>
    /\ direct = <<>>
    /\ response = NoResponse
    /\ providers = <<>>
    /\ uploaded_files = [t \in {} |-> None]
    /\ now = 0
    /\ ret = NoRouterCall
    /\ all_hosts = <<>>
    /\ temporary_hosts = <<>>
    /\ reg = NoRegistryCall

ExecNext ==
    \/ CallerStart
    \/ CallerJoin1
    \/ CallerIsAlive1
    \/ CallerTerminate
    \/ CallerJoin2
    \/ CallerIsAlive2
    \/ CallerKill
    \/ CallerJoin0
    \/ CallerRaiseTimeout
    \/ CallerQueueEmpty
    \/ CallerGet
    \/ WorkerSetLimits
    \/ WorkerFinish
    \/ FeederFlush
    \/ WorkerExit
    \/ WorkerKilled
    \/ ClockTick

ExecSpec == ExecInit /\ [][ExecNext]_vars

\* run_with_limits is called with an operation that takes no time, in a
\* process whose hard ceilings are anything the OS can report.
LimitsInit ==
    /\ call \in {c \in Invocations : WellFormed(c) /\ c.duration = 0}
    /\ cpc = "start"
    /\ wpc = "unstarted"
    /\ clock = 0
    /\ deadline = <<>>
    /\ finish_at = 0
    /\ feeder = <<>>
    /\ pipe = <<>>
    /\ signals = NoSignals
    /\ starts = 0
    /\ outcome = NoOutcome
    /\ rlimit \in HardCeilings
    /\ attempts = <<>>
    /\ agg = NoAggCall
    /\ scan = NoScan
    /\ request = NoRequest
    /\ max_duration_seconds = <<>>
    /\ query_limits = NoQueryLimits
    /\ machine = NoMachine
    /\ ram_limit = <<>>
    /\ hpc = "idle"
    /\ bounded = <<>>
    /\ direct = <<>>
    /\ response = NoResponse
    /\ providers = <<>>
    /\ uploaded_files = [t \in {} |-> None]
    /\ now = 0
    /\ ret = NoRouterCall
    /\ all_hosts = <<>>
    /\ temporary_hosts = <<>>
    /\ reg = NoRegistryCall

LimitsSpec == LimitsInit /\ [][ExecNext]_vars

\* The caller is a running thread, the worker a running process, and time
\* passes: no step that stays possible is put off for ever.
ExecFairSpec == ExecSpec /\ WF_vars(CallerStep) /\ WF_vars(WorkerStep) /\ WF_vars(ClockTick)

-----------------------------------------------------------------------------
(* The aggregation pipeline and the provider's motif operations *)
(*                                                                         *)
(* An aggregation directive is a string, held as a sequence of tokens: "|" *)
(* and " " are tokens of their own, the other tokens are pieces of text    *)
(* without either.  A match binds each motif vertex to a host vertex.      *)

MaxMatches == 2      \* a query has 0 .. MaxMatches matches

\* The matches of the two-vertex motif: A and B bound to distinct host vertices.
Matches == {m \in [MotifVerts -> HostVerts] : m["A"] # m["B"]}

\* str.__contains__("|")
HasBar(str) == \E i \in 1..Len(str) : str[i] = "|"

\* Where the first "|" of a string with one is.
FirstBar(str) == CHOOSE i \in 1..Len(str) : str[i] = "|" /\ \A j \in 1..(i - 1) : str[j] # "|"

\* str.split("|"): the pieces between the bars, in order.
RECURSIVE Split(_)
Split(str) ==
    IF ~HasBar(str) THEN <<str>>
    ELSE <<SubSeq(str, 1, FirstBar(str) - 1)>> \o Split(SubSeq(str, FirstBar(str) + 1, Len(str)))

\* "|".join(pieces)
RECURSIVE Join(_)
Join(pieces) ==
    IF Len(pieces) = 0 THEN <<>>
    ELSE IF Len(pieces) = 1 THEN pieces[1]
    ELSE pieces[1] \o <<"|">> \o Join(Tail(pieces))

\* str.strip()
RECURSIVE Strip(_)
Strip(str) ==
    IF str # <<>> /\ Head(str) = " " THEN Strip(Tail(str))
    ELSE IF str # <<>> /\ str[Len(str)] = " " THEN Strip(SubSeq(str, 1, Len(str) - 1))
    ELSE str

\* json.loads: the object a text denotes, or JSONDecodeError.  White space
\* around the text is skipped.
JsonLoads(str) ==
    LET text == Strip(str)
    IN  IF text = <<"{}">> THEN [raised |-> None, args |-> NoArgs]
        ELSE IF text = <<"{limit:1}">> THEN [raised |-> None, args |-> [NoArgs EXCEPT !.limit = <<1>>]]
        ELSE IF text = <<"{limit:2}">> THEN [raised |-> None, args |-> [NoArgs EXCEPT !.limit = <<2>>]]
        ELSE IF text = <<"{a:x", "|", "y}">> THEN [raised |-> None, args |-> [NoArgs EXCEPT !.a = <<"x|y">>]]
        ELSE [raised |-> "JSONDecodeError", args |-> NoArgs]

\* MotifAggregation.parse_aggregation_args
parse_aggregation_args(aggr_argument_string) ==
    IF aggr_argument_string = <<>> THEN [raised |-> None, args |-> NoArgs]
    ELSE IF ~HasBar(aggr_argument_string) THEN [raised |-> None, args |-> NoArgs]
    ELSE LET aggr_args == Split(aggr_argument_string)
         IN  IF Len(aggr_args) # 2 THEN [raised |-> None, args |-> NoArgs]
             ELSE JsonLoads(Join(Tail(aggr_args)))

\* The same text, were the piece before the first "|" left as it is.
AggKindUnstripped(aggregator_string) ==
    IF HasBar(aggregator_string) THEN Split(aggregator_string)[1] ELSE aggregator_string

\* The text get_aggregator compares (lines 68-69): the piece before the first
\* "|", stripped; a string without "|" as it is.
AggKind(aggregator_string) ==
    IF HasBar(aggregator_string) THEN Strip(Split(aggregator_string)[1]) ELSE aggregator_string

\* get_aggregator, were a kind it does not know to give the base aggregator.
get_aggregator_or_identity(aggregator_string) ==
    LET kind == AggKind(aggregator_string)
    IN  IF kind = <<"host.vertex">> THEN "MotifResultsHostVertexCountAggregator"
        ELSE IF kind = <<"motif.vertex">> THEN "MotifResultsMotifVertexCountAggregator"
        ELSE IF kind = <<"sample">> THEN "MotifResultsSampleAggregator"
        ELSE "MotifResultsAggregator"

\* MotifAggregation.get_aggregator: the aggregator class, or None
get_aggregator(aggregator_string) ==
    LET kind == AggKind(aggregator_string)
    IN  IF kind = <<>> THEN "MotifResultsAggregator"
        ELSE IF kind = <<"host.vertex">> THEN "MotifResultsHostVertexCountAggregator"
        ELSE IF kind = <<"motif.vertex">> THEN "MotifResultsMotifVertexCountAggregator"
        ELSE IF kind = <<"sample">> THEN "MotifResultsSampleAggregator"
        ELSE None

\* MotifAggregation.explain_valid: the string attributes of the class (lines 43-46)
explain_valid == {<<"host.vertex">>, <<"motif.vertex">>, <<"motif.vertex.attribute">>, <<"sample">>}

\* A dict is a function on its keys; {} is the function on no key.
EmptyDict == <<>>

\* dict.setdefault(key, default)
SetDefault(d, key, default) ==
    IF key \in DOMAIN d THEN d
    ELSE [k \in DOMAIN d \cup {key} |-> IF k = key THEN default ELSE d[k]]

\* motif_mapping.items(): the bindings of a match, in the order of its keys
ItemsOrder == <<"A", "B">>

\* The same body, were it to note a binding instead of counting it.
CountOnce(outer, k1, k2) ==
    LET made == SetDefault(outer, k1, EmptyDict)
    IN  [made EXCEPT ![k1] = [k \in DOMAIN @ \cup {k2} |-> 1]]

\* The body of the inner loop of both count aggregators (vertex_count.py lines
\* 25-27 and 47-49): outer.setdefault(k1, {}); outer[k1].setdefault(k2, 0);
\* outer[k1][k2] += 1
CountOne(outer, k1, k2) ==
    LET made == SetDefault(outer, k1, EmptyDict)
        zeroed == [made EXCEPT ![k1] = SetDefault(@, k2, 0)]
    IN  [zeroed EXCEPT ![k1] = [@ EXCEPT ![k2] = @ + 1]]

\* for motif_vertex_id, host_vertex_id in motif_mapping.items(), from the j-th
\* item on, grouping on the host vertex (by = "host") or on the motif vertex.
RECURSIVE CountItems(_, _, _, _)
CountItems(outer, motif_mapping, j, by) ==
    IF j > Len(ItemsOrder) THEN outer
    ELSE LET motif_vertex_id == ItemsOrder[j]
             host_vertex_id == motif_mapping[motif_vertex_id]
         IN  CountItems(IF by = "host" THEN CountOne(outer, host_vertex_id, motif_vertex_id)
                        ELSE CountOne(outer, motif_vertex_id, host_vertex_id),
                        motif_mapping, j + 1, by)

\* for motif_mapping in results, were it to take each match off the list it reads.
RECURSIVE CountLoopConsuming(_, _, _, _)
CountLoopConsuming(results, i, outer, by) ==
    IF results = <<>> THEN [results |-> results, out |-> outer]
    ELSE CountLoopConsuming(Tail(results), i, CountItems(outer, Head(results), 1, by), by)

\* for motif_mapping in results, from the i-th match on: the list as the loop
\* leaves it, and the dict it built.
RECURSIVE CountLoop(_, _, _, _)
CountLoop(results, i, outer, by) ==
    IF i > Len(results) THEN [results |-> results, out |-> outer]
    ELSE CountLoop(results, i + 1, CountItems(outer, results[i], 1, by), by)

\* The aggregate method of a count aggregator, were its loop the consuming one.
CountAggregateConsuming(results, by) == CountLoopConsuming(results, 1, EmptyDict, by)

\* The aggregate method of a count aggregator: the dict starts empty and the
\* loop runs over the whole list.
CountAggregate(results, by) == CountLoop(results, 1, EmptyDict, by)

\* dict.get(key, 0) on a dict of dicts
Entry(d, k1, k2) == IF k1 \in DOMAIN d /\ k2 \in DOMAIN d[k1] THEN d[k1][k2] ELSE 0

\* How many members a finite set of positions has, as len() of a selection.
Count(S) == Cardinality(S)

\* MotifResultsHostVertexCountAggregator.aggregate: for each host vertex and
\* motif vertex the number of matches binding the one to the other (0: no entry).
HostVertexCounts(results) ==
    [h \in HostVerts |-> [m \in MotifVerts |->
        Entry(CountAggregate(results, "host").out, h, m)]]

\* MotifResultsMotifVertexCountAggregator.aggregate: for each motif vertex and
\* host vertex the number of matches binding the one to the other (0: no entry).
MotifVertexCounts(results) ==
    [m \in MotifVerts |-> [h \in HostVerts |->
        Entry(CountAggregate(results, "motif").out, m, h)]]

\* len() of the host-vertex map: the host vertices that have an entry.
CountsLen(counts) == Count({h \in HostVerts : \E m \in MotifVerts : counts[h][m] > 0})

\* len() of the motif-vertex map: the motif vertices that have an entry.
MotifCountsLen(counts) == Count({m \in MotifVerts : \E h \in HostVerts : counts[m][h] > 0})

\* random.sample(results, k), were it to draw with replacement.
SamplesWithReplacement(results, k) ==
    { [i \in 1..k |-> results[pos[i]]] : pos \in [1..k -> 1..Len(results)] }

\* random.sample(results, k): every list of k members of results taken from k
\* distinct positions (none when k > len(results): ValueError).
Samples(results, k) ==
    { [i \in 1..k |-> results[pos[i]]] :
        pos \in {q \in [1..k -> 1..Len(results)] : \A i, j \in 1..k : i # j => q[i] # q[j]} }

\* GrandIsoExecutor.find(motif, limit): all the matches, or the first limit of them.
Find(matches, limit) ==
    IF limit = <<>> \/ limit[1] >= Len(matches) THEN matches ELSE SubSeq(matches, 1, limit[1])

\* aggregator(**parsed_agg_args).aggregate(results), sample being one of the
\* samples random.sample can give.
Aggregate(aggregator, args, results, sample) ==
    IF aggregator = "MotifResultsHostVertexCountAggregator"
    THEN [NoResults EXCEPT !.form = "host.vertex", !.counts = HostVertexCounts(results)]
             @@ [raised |-> None]
    ELSE IF aggregator = "MotifResultsMotifVertexCountAggregator"
    THEN [NoResults EXCEPT !.form = "motif.vertex", !.motif_counts = MotifVertexCounts(results)]
             @@ [raised |-> None]
    ELSE IF aggregator = "MotifResultsSampleAggregator"
    THEN IF (IF args.limit = <<>> THEN 1 ELSE args.limit[1]) > Len(results)
         THEN NoResults @@ [raised |-> "ValueError"]
         ELSE [NoResults EXCEPT !.list = sample] @@ [raised |-> None]
    ELSE [NoResults EXCEPT !.list = results] @@ [raised |-> None]

\* The samples the sample aggregator may draw from what the search returned.
SamplesFor(args, results) ==
    LET k == IF args.limit = <<>> THEN 1 ELSE args.limit[1]
    IN  IF k > Len(results) THEN {<<>>} ELSE Samples(results, k)

Raised(error) == NoResults @@ [raised |-> error]

\* NetworkXHostProvider.get_motifs(uri, motif_string, aggregation_type), run on
\* a request: what it raises, or the results it returns.
get_motifs(req, sample) ==
    IF ~req.query_ok THEN Raised("ValueError")
    ELSE LET parsed == parse_aggregation_args(req.aggregation_type)
             aggregator == get_aggregator(req.aggregation_type)
         IN  IF parsed.raised # None THEN Raised(parsed.raised)
             ELSE IF aggregator = None THEN Raised("ValueError")
             ELSE IF ~req.graph_ok THEN Raised("GraphError")
             ELSE Aggregate(aggregator, parsed.args,
                            Find(req.matches, parsed.args.limit), sample)

\* The samples get_motifs may draw on a request (one empty sample when it draws none).
SamplesOf(req) ==
    LET parsed == parse_aggregation_args(req.aggregation_type)
    IN  IF req.query_ok /\ parsed.raised = None /\ req.graph_ok
           /\ get_aggregator(req.aggregation_type) = "MotifResultsSampleAggregator"
        THEN SamplesFor(parsed.args, Find(req.matches, parsed.args.limit))
        ELSE {<<>>}

\* NetworkXHostProvider.get_motif_count(uri, motif_string): what it raises, or the count.
get_motif_count(req) ==
    IF ~req.query_ok THEN [raised |-> "ParseError", count |-> 0]
    ELSE IF ~req.graph_ok THEN [raised |-> "GraphError", count |-> 0]
    ELSE [raised |-> None, count |-> Len(req.matches)]

\* MotifResultsSampleAggregator.__init__: self._limit = kwargs.get("limit", 1)
SampleLimit(args) == IF args.limit = <<>> THEN 1 ELSE args.limit[1]

\* aggregator(**args).aggregate(results) as a call: what it raises, what it
\* returns (a list or one of the two dicts), and the input list after it.
\* sample is what random.sample gave.
aggregate(aggregator, args, results, sample) ==
    LET call_ == [NoAggCall EXCEPT !.op = "aggregate", !.aggregator = aggregator, !.args = args,
                                   !.results = results, !.after = results]
    IN  IF aggregator = "MotifResultsHostVertexCountAggregator"
        THEN [call_ EXCEPT !.host_verts = CountAggregate(results, "host").out,
                           !.after = CountAggregate(results, "host").results]
        ELSE IF aggregator = "MotifResultsMotifVertexCountAggregator"
        THEN [call_ EXCEPT !.motif_verts = CountAggregate(results, "motif").out,
                           !.after = CountAggregate(results, "motif").results]
        ELSE IF aggregator = "MotifResultsSampleAggregator"
        THEN IF SampleLimit(args) > Len(results) \/ SampleLimit(args) < 0
             THEN [call_ EXCEPT !.raised = "ValueError"]
             ELSE [call_ EXCEPT !.list = sample]
        ELSE [call_ EXCEPT !.list = results]

\* NetworkXHostProvider.get_motifs as a call, line by line: the calls it
\* makes, what it raises, or what the aggregator returns.
GetMotifsCall(req, sample) ==
    LET d == req.aggregation_type
        parsed == parse_aggregation_args(d)
        aggregator == get_aggregator(d)
        call_ == [NoAggCall EXCEPT !.op = "get_motifs", !.directive = d]
    IN  IF ~req.query_ok
        THEN [call_ EXCEPT !.trace = <<"Motif">>, !.raised = "ValueError"]
        ELSE IF parsed.raised # None
        THEN [call_ EXCEPT !.trace = <<"Motif", "parse_aggregation_args">>,
                           !.raised = parsed.raised]
        ELSE IF aggregator = None
        THEN [call_ EXCEPT !.trace = <<"Motif", "parse_aggregation_args", "get_aggregator">>,
                           !.args = parsed.args, !.kind = AggKind(d), !.raised = "ValueError"]
        ELSE IF ~req.graph_ok
        THEN [call_ EXCEPT !.trace = <<"Motif", "parse_aggregation_args", "get_aggregator",
                                       "get_networkx_graph">>,
                           !.args = parsed.args, !.kind = AggKind(d), !.aggregator = aggregator,
                           !.raised = "GraphError"]
        ELSE [aggregate(aggregator, parsed.args, Find(req.matches, parsed.args.limit), sample)
                EXCEPT !.op = "get_motifs", !.directive = d, !.kind = AggKind(d),
                       !.trace = <<"Motif", "parse_aggregation_args", "get_aggregator",
                                   "get_networkx_graph", "find", "aggregate">>]

-----------------------------------------------------------------------------
(* The aggregation pipeline, called on its own *)

\* MotifAggregation.parse_aggregation_args(d)
ParseAggregationArgs(d) ==
    /\ agg' = [NoAggCall EXCEPT !.op = "parse_aggregation_args", !.directive = d,
                                !.raised = parse_aggregation_args(d).raised,
                                !.args = parse_aggregation_args(d).args]
    /\ UNCHANGED notAgg

\* MotifAggregation.get_aggregator(d)
GetAggregator(d) ==
    /\ agg' = [NoAggCall EXCEPT !.op = "get_aggregator", !.directive = d, !.kind = AggKind(d),
                                !.aggregator = get_aggregator(d)]
    /\ UNCHANGED notAgg

\* aggregator(**args).aggregate(results)
AggregateResults(aggregator, args, results) ==
    /\ \E sample \in SamplesFor(args, results) :
         agg' = aggregate(aggregator, args, results, sample)
    /\ UNCHANGED notAgg

\* provider.get_motifs(uri, query, aggregation_type)
GetMotifs(req) ==
    /\ \E sample \in SamplesOf(req) : agg' = GetMotifsCall(req, sample)
    /\ UNCHANGED notAgg

-----------------------------------------------------------------------------
(* The query handlers *)
(*                                                                         *)
(* One behaviour is one request served by one handler.  A run_with_limits  *)
(* call made by a handler is one step: it gives what the operation did, or *)
(* MemoryError, or with a timeout TimeoutError, and it keeps the serving   *)
(* task for `elapsed`, of which `grace` after the deadline, stopping the   *)
(* worker (the second join of run_with_limits, at most the timeout again). *)

\* HostProviderRouterGlobalDep.__init__, lines 166-168: ql.get("max_ram_pct", 0.5)
\* as the fraction <<numerator, denominator>>, and ql.get("max_ram_bytes").
max_ram_pct(ql) == IF ql.max_ram_pct = <<>> THEN <<1, 2>> ELSE ql.max_ram_pct[1]
max_ram_bytes(ql) == ql.max_ram_bytes

\* psutil.virtual_memory().total, or the RuntimeError raised when the import fails.
PsutilTotal(m) ==
    IF m.psutil # <<>> THEN [raised |-> None, total |-> m.psutil[1]]
    ELSE [raised |-> "RuntimeError", total |-> 0]

\* get_total_ram_bytes(): the MemTotal line of /proc/meminfo, in kB, times
\* 1024 on Linux; sysctl hw.memsize on Darwin; psutil when neither gave it.
get_total_ram_bytes(m) ==
    IF m.system = "Linux"
    THEN IF ~m.meminfo_opens THEN [raised |-> "FileNotFoundError", total |-> 0]
         ELSE IF m.MemTotal # <<>> THEN [raised |-> None, total |-> m.MemTotal[1] * 1024]
         ELSE PsutilTotal(m)
    ELSE IF m.system = "Darwin" /\ m.hw_memsize # <<>>
    THEN [raised |-> None, total |-> m.hw_memsize[1]]
    ELSE PsutilTotal(m)

\* int(x) of the float x = n * pct: the fraction is cut off, towards zero.
PyInt(n, pct) ==
    IF n * pct[1] >= 0 THEN (n * pct[1]) \div pct[2] ELSE -((-(n * pct[1])) \div pct[2])

\* The same line, were a machine that does not tell its memory to leave the
\* query without a limit.
RamLimitOrUnbounded(ql, m) ==
    IF max_ram_bytes(ql) # <<>> THEN [raised |-> None, limit |-> max_ram_bytes(ql)[1]]
    ELSE IF get_total_ram_bytes(m).raised # None THEN [raised |-> None, limit |-> RLIM_INFINITY]
    ELSE [raised |-> None, limit |-> PyInt(get_total_ram_bytes(m).total, max_ram_pct(ql))]

\* The handlers' line
\*   ram_limit = commons.max_ram_bytes if commons.max_ram_bytes is not None
\*               else int(get_total_ram_bytes() * commons.max_ram_pct)
\* what it raises, or the limit.
RamLimit(ql, m) ==
    IF max_ram_bytes(ql) # <<>> THEN [raised |-> None, limit |-> max_ram_bytes(ql)[1]]
    ELSE IF get_total_ram_bytes(m).raised # None
    THEN [raised |-> get_total_ram_bytes(m).raised, limit |-> 0]
    ELSE [raised |-> None, limit |-> PyInt(get_total_ram_bytes(m).total, max_ram_pct(ql))]

Handlers ==
    {"graph_download", "count_vertices", "vertex_attributes", "count_edges", "edge_attributes",
     "count_motifs", "motifs"}

\* The handlers that call the provider on the serving task, and the operation each calls.
DirectHandlers == {"count_vertices", "vertex_attributes", "count_edges", "edge_attributes"}

ProviderOp(handler) ==
    CASE handler = "count_vertices" -> "get_vertex_count"
      [] handler = "vertex_attributes" -> "get_vertex_attribute_schema"
      [] handler = "count_edges" -> "get_edge_count"
      [] handler = "edge_attributes" -> "get_edge_attribute_schema"

\* How long a call that does not time out can take.
RunLimit(timeout) == IF timeout = <<>> THEN MaxDuration ELSE timeout[1]

\* run_with_limits on an operation that raises op_raised (None: returns), as
\* its caller sees it.
BoundedOutcomes(op_raised, timeout) ==
    { [outcome |-> IF op_raised = None THEN "Success" ELSE "Failed", error |-> op_raised,
       elapsed |-> d, grace |-> 0] : d \in 0..RunLimit(timeout) }
    \cup { [outcome |-> "MemoryError", error |-> "MemoryError", elapsed |-> d, grace |-> 0] :
             d \in 0..RunLimit(timeout) }
    \cup (IF timeout = <<>> THEN {}
          ELSE { [outcome |-> "TimeoutError", error |-> "TimeoutError",
                  elapsed |-> timeout[1] + g, grace |-> g] : g \in 0..timeout[1] })

\* The entry a call leaves in the handler's log.
Called(op, o, limit) ==
    [op |-> op, max_ram_bytes |-> limit, outcome |-> o.outcome, elapsed |-> o.elapsed,
     grace |-> o.grace]

\* raise HTTPException(status_code=status)
HttpError(status) == [NoResponse EXCEPT !.kind = "http_error", !.status = status]

\* The except branch of the motif handlers: motif_count=-1, error=str(e)
ErrorResponse(error) ==
    [kind |-> "response", status |-> 200, motif_count |-> -1, error |-> error,
     results |-> NoResults]

\* A response built on the normal path.
OkResponse(count, error, results) ==
    [kind |-> "response", status |-> 200, motif_count |-> count, error |-> error,
     results |-> results]

\* An exception nothing in the handler catches.
Uncaught(error) == [NoResponse EXCEPT !.kind = "uncaught", !.status = 500, !.error = error]

\* The results part of what get_motifs returned.
ResultsOf(r) ==
    [form |-> r.form, list |-> r.list, counts |-> r.counts, motif_counts |-> r.motif_counts]

\* len(results) in query_motifs
ResultsLen(r) ==
    IF r.form = "host.vertex" THEN CountsLen(r.counts)
    ELSE IF r.form = "motif.vertex" THEN MotifCountsLen(r.motif_counts)
    ELSE Len(r.list)

\* Every handler's first lines: get_uri_from_id, provider_for, 404 if either
\* is None.  query_count_motifs and query_motifs compute ram_limit before
\* them (lines 265 and 427), outside any try.
ResolveHost ==
    /\ hpc = "start"
    /\ IF request.handler \in {"count_motifs", "motifs"} /\ RamLimit(query_limits, machine).raised # None
       THEN /\ hpc' = "done"
            /\ response' = Uncaught(RamLimit(query_limits, machine).raised)
            /\ ram_limit' = ram_limit
       ELSE /\ ram_limit' = IF request.handler \in {"count_motifs", "motifs"}
                            THEN <<RamLimit(query_limits, machine).limit>>
                            ELSE ram_limit
            /\ IF request.host = "found"
               THEN hpc' = "body" /\ response' = response
               ELSE hpc' = "done" /\ response' = HttpError(404)
    /\ UNCHANGED <<request, max_duration_seconds, query_limits, machine, bounded, direct>>
    /\ UNCHANGED notHandler

\* query_graph_download, lines 85-131: ram_limit (line 87, outside the try),
\* then run_with_limits(provider.maybe_get_networkx_graph, ...)
QueryGraphDownload ==
    /\ hpc = "body"
    /\ request.handler = "graph_download"
    /\ IF RamLimit(query_limits, machine).raised # None
       THEN /\ response' = Uncaught(RamLimit(query_limits, machine).raised)
            /\ UNCHANGED <<ram_limit, bounded>>
       ELSE /\ ram_limit' = <<RamLimit(query_limits, machine).limit>>
            /\ \E o \in BoundedOutcomes(None, max_duration_seconds) :
                 /\ bounded' = Append(bounded, Called("maybe_get_networkx_graph", o, ram_limit'))
                 /\ response' =
                      CASE o.outcome = "TimeoutError" -> HttpError(504)
                        [] o.outcome = "MemoryError" -> HttpError(503)
                        [] OTHER -> OkResponse(0, IF request.graph_ok THEN "" ELSE "GraphError",
                                               NoResults)
    /\ hpc' = "done"
    /\ UNCHANGED <<request, max_duration_seconds, query_limits, machine, direct>>
    /\ UNCHANGED notHandler

\* query_count_vertices, query_vertex_attributes, query_count_edges,
\* query_edge_attributes: provider.get_...(uri), then the response
QueryDirect ==
    /\ hpc = "body"
    /\ request.handler \in DirectHandlers
    /\ direct' = Append(direct, ProviderOp(request.handler))
    /\ response' = IF request.graph_ok
                   THEN OkResponse(Len(request.matches), None, NoResults)
                   ELSE Uncaught("GraphError")
    /\ hpc' = "done"
    /\ UNCHANGED <<request, max_duration_seconds, query_limits, machine, ram_limit, bounded>>
    /\ UNCHANGED notHandler

\* query_count_motifs, the dotmotif branch (lines 322-341, except 342-352)
QueryCountMotifsDotmotif ==
    /\ hpc = "body"
    /\ request.handler = "count_motifs"
    /\ request.query_type = "dotmotif"
    /\ \E o \in BoundedOutcomes(get_motif_count(request).raised, max_duration_seconds) :
         /\ bounded' = Append(bounded, Called("get_motif_count", o, ram_limit))
         /\ response' = IF o.outcome = "Success"
                        THEN OkResponse(get_motif_count(request).count, None, NoResults)
                        ELSE ErrorResponse(o.error)
    /\ hpc' = "done"
    /\ UNCHANGED <<request, max_duration_seconds, query_limits, machine, ram_limit, direct>>
    /\ UNCHANGED notHandler

\* The cypher branch of query_count_motifs and query_motifs with a provider
\* that is no NetworkXHostProvider: raise ValueError, caught by the handler
CypherUnsupported ==
    /\ hpc = "body"
    /\ request.handler \in {"count_motifs", "motifs"}
    /\ request.query_type = "cypher"
    /\ ~request.networkx
    /\ response' = ErrorResponse("ValueError")
    /\ hpc' = "done"
    /\ UNCHANGED <<request, max_duration_seconds, query_limits, machine, ram_limit, bounded, direct>>
    /\ UNCHANGED notHandler

\* The cypher branch, first call: run_with_limits(provider.get_networkx_graph, ...)
CypherLoadGraph ==
    /\ hpc = "body"
    /\ request.handler \in {"count_motifs", "motifs"}
    /\ request.query_type = "cypher"
    /\ request.networkx
    /\ \E o \in BoundedOutcomes(IF request.graph_ok THEN None ELSE "GraphError",
                                max_duration_seconds) :
         /\ bounded' = Append(bounded, Called("get_networkx_graph", o, ram_limit))
         /\ IF o.outcome = "Success"
            THEN hpc' = "cypher_run" /\ response' = response
            ELSE hpc' = "done" /\ response' = ErrorResponse(o.error)
    /\ UNCHANGED <<request, max_duration_seconds, query_limits, machine, ram_limit, direct>>
    /\ UNCHANGED notHandler

\* The cypher branch, second call: run_with_limits(grandcypher.GrandCypher(host_graph).run, ...),
\* then the count or the reformatted rows; aggregation_type is only echoed
CypherRun ==
    /\ hpc = "cypher_run"
    /\ \E o \in BoundedOutcomes(IF request.query_ok THEN None ELSE "ParseError",
                                max_duration_seconds) :
         /\ bounded' = Append(bounded, Called("GrandCypher.run", o, ram_limit))
         /\ response' =
              IF o.outcome # "Success" THEN ErrorResponse(o.error)
              ELSE IF request.handler = "count_motifs"
              THEN OkResponse(Len(request.matches), None, NoResults)
              ELSE OkResponse(Len(request.matches), None,
                              [NoResults EXCEPT !.list = request.matches])
    /\ hpc' = "done"
    /\ UNCHANGED <<request, max_duration_seconds, query_limits, machine, ram_limit, direct>>
    /\ UNCHANGED notHandler

\* query_motifs, the dotmotif branch, line 515: motif = Motif(query) on the serving task
MotifsParse ==
    /\ hpc = "body"
    /\ request.handler = "motifs"
    /\ request.query_type = "dotmotif"
    /\ IF request.query_ok
       THEN hpc' = "search" /\ response' = response
       ELSE hpc' = "done" /\ response' = ErrorResponse("ParseError")
    /\ UNCHANGED <<request, max_duration_seconds, query_limits, machine, ram_limit, bounded, direct>>
    /\ UNCHANGED notHandler

\* query_motifs, the dotmotif branch, lines 516-537: run_with_limits(provider.get_motifs, ...)
MotifsSearch ==
    /\ hpc = "search"
    /\ \E sample \in SamplesOf(request) :
         \E o \in BoundedOutcomes(get_motifs(request, sample).raised, max_duration_seconds) :
           /\ bounded' = Append(bounded, Called("get_motifs", o, ram_limit))
           /\ response' =
                IF o.outcome = "Success"
                THEN OkResponse(ResultsLen(get_motifs(request, sample)), None,
                                ResultsOf(get_motifs(request, sample)))
                ELSE ErrorResponse(o.error)
    /\ hpc' = "done"
    /\ UNCHANGED <<request, max_duration_seconds, query_limits, machine, ram_limit, direct>>
    /\ UNCHANGED notHandler

\* Aggregation directives: none, a kind alone, a kind with arguments, with
\* white space around the bar, with a bar inside the JSON, with no JSON, with
\* a bar inside what is no JSON, and the kind explain_valid lists besides.
Directives ==
    { <<>>,
      <<"host.vertex">>,
      <<"motif.vertex">>,
      <<"sample">>,
      <<"bogus">>,
      <<"host.vertex", " ", "|", " ", "{limit:1}">>,
      <<"sample", "|", "{limit:2}">>,
      <<"sample", "|", "{}">>,
      <<"sample", "|", "notjson">>,
      <<"sample", "|", "{a:x", "|", "y}">>,
      <<"sample", "|", "not", "|", "json">>,
      <<"motif.vertex.attribute">> }

\* The match lists of a query: no match twice.
MatchLists ==
    { ms \in SeqsUpTo(Matches, MaxMatches) : \A i, j \in 1..Len(ms) : i # j => ms[i] # ms[j] }

\* The requests: a motif request has a query and, for the search, maybe a
\* directive; the others have neither.
Requests ==
    { r \in [handler : Handlers, host : {"found", "no_host", "no_provider"},
             query_type : {"dotmotif", "cypher"}, query_ok : BOOLEAN,
             aggregation_type : Directives, networkx : BOOLEAN, graph_ok : BOOLEAN,
             matches : MatchLists] :
        /\ r.handler # "motifs" => r.aggregation_type = <<>>
        /\ r.handler \notin {"count_motifs", "motifs"} =>
             r.query_type = "dotmotif" /\ r.query_ok /\ r.networkx
        /\ r.host # "found" => r.graph_ok /\ r.matches = <<>> /\ r.query_ok /\ r.networkx
        /\ ~r.graph_ok => r.matches = <<>> }

\* The "query_limits" of a config: max_ram_pct absent or a fraction,
\* max_ram_bytes absent (or null) or a number of bytes.
Fractions == {<<1, 2>>, <<1, 4>>, <<1, 1>>}
QueryLimits ==
    [max_ram_pct : {<<>>} \cup {<<f>> : f \in Fractions},
     max_ram_bytes : {<<>>} \cup {<<n>> : n \in 0..MaxRam}]

\* The machines: what get_total_ram_bytes finds on each system, the sources
\* it does not read there at rest.
Sizes == {<<>>} \cup {<<n>> : n \in 1..MaxMemTotal}
Machines ==
    { m \in [system : {"Linux", "Darwin", "Windows"}, meminfo_opens : BOOLEAN, MemTotal : Sizes,
             hw_memsize : Sizes, psutil : Sizes] :
        /\ m.system # "Linux" => m.meminfo_opens /\ m.MemTotal = <<>>
        /\ m.system # "Darwin" => m.hw_memsize = <<>>
        /\ ~m.meminfo_opens => m.MemTotal = <<>> /\ m.psutil = <<>>
        /\ m.MemTotal # <<>> => m.psutil = <<>> }

\* A Linux machine whose /proc/meminfo has no MemTotal line and that has no psutil.
NoTotalRam == [NoMachine EXCEPT !.MemTotal = <<>>]

\* A request arrives.
HandlerInit ==
    /\ request \in Requests
    /\ max_duration_seconds \in Timeouts
    /\ query_limits \in {NoQueryLimits, [NoQueryLimits EXCEPT !.max_ram_bytes = <<1>>]}
    /\ machine \in {NoMachine, NoTotalRam}
    /\ ram_limit = <<>>
    /\ hpc = "start"
    /\ bounded = <<>>
    /\ direct = <<>>
    /\ response = NoResponse
    /\ providers = <<>>
    /\ uploaded_files = [t \in {} |-> None]
    /\ now = 0
    /\ ret = NoRouterCall
    /\ all_hosts = <<>>
    /\ temporary_hosts = <<>>
    /\ reg = NoRegistryCall
    /\ call = NoInvocation
    /\ cpc = "idle"
    /\ wpc = "unstarted"
    /\ clock = 0
    /\ deadline = <<>>
    /\ finish_at = 0
    /\ feeder = <<>>
    /\ pipe = <<>>
    /\ signals = NoSignals
    /\ starts = 0
    /\ outcome = NoOutcome
    /\ rlimit = NoLimits
    /\ attempts = <<>>
    /\ agg = NoAggCall
    /\ scan = NoScan

HandlerNext ==
    \/ ResolveHost
    \/ QueryGraphDownload
    \/ QueryDirect
    \/ QueryCountMotifsDotmotif
    \/ CypherUnsupported
    \/ CypherLoadGraph
    \/ CypherRun
    \/ MotifsParse
    \/ MotifsSearch

HandlerSpec == HandlerInit /\ [][HandlerNext]_vars

\* A request arrives at a server of any configuration on any machine: the
\* requests without matches or directive, one duration.
RamInit ==
    /\ request \in {r \in Requests : r.matches = <<>> /\ r.aggregation_type = <<>> /\ r.query_ok}
    /\ max_duration_seconds = <<1>>
    /\ query_limits \in QueryLimits
    /\ machine \in Machines
    /\ ram_limit = <<>>
    /\ hpc = "start"
    /\ bounded = <<>>
    /\ direct = <<>>
    /\ response = NoResponse
    /\ providers = <<>>
    /\ uploaded_files = [t \in {} |-> None]
    /\ now = 0
    /\ ret = NoRouterCall
    /\ all_hosts = <<>>
    /\ temporary_hosts = <<>>
    /\ reg = NoRegistryCall
    /\ call = NoInvocation
    /\ cpc = "idle"
    /\ wpc = "unstarted"
    /\ clock = 0
    /\ deadline = <<>>
    /\ finish_at = 0
    /\ feeder = <<>>
    /\ pipe = <<>>
    /\ signals = NoSignals
    /\ starts = 0
    /\ outcome = NoOutcome
    /\ rlimit = NoLimits
    /\ attempts = <<>>
    /\ agg = NoAggCall
    /\ scan = NoScan

RamSpec == RamInit /\ [][HandlerNext]_vars

-----------------------------------------------------------------------------
(* The aggregation pipeline: inputs and specification *)

Aggregators ==
    {"MotifResultsAggregator", "MotifResultsHostVertexCountAggregator",
     "MotifResultsMotifVertexCountAggregator", "MotifResultsSampleAggregator"}

\* The arguments an aggregator is built with: no limit, or one up to one more
\* than the longest match list.
ArgBags == {[NoArgs EXCEPT !.limit = l] : l \in {<<>>} \cup {<<k>> : k \in 1..(MaxMatches + 1)}}

\* The dotmotif searches on a host that was found.
Searches ==
    {r \in Requests : r.handler = "motifs" /\ r.query_type = "dotmotif" /\ r.host = "found"
                      /\ r.networkx}

\* Nothing has been called.
AggInit ==
    /\ request = NoRequest
    /\ max_duration_seconds = <<>>
    /\ query_limits = NoQueryLimits
    /\ machine = NoMachine
    /\ ram_limit = <<>>
    /\ hpc = "start"
    /\ bounded = <<>>
    /\ direct = <<>>
    /\ response = NoResponse
    /\ providers = <<>>
    /\ uploaded_files = [t \in {} |-> None]
    /\ now = 0
    /\ ret = NoRouterCall
    /\ all_hosts = <<>>
    /\ temporary_hosts = <<>>
    /\ reg = NoRegistryCall
    /\ call = NoInvocation
    /\ cpc = "idle"
    /\ wpc = "unstarted"
    /\ clock = 0
    /\ deadline = <<>>
    /\ finish_at = 0
    /\ feeder = <<>>
    /\ pipe = <<>>
    /\ signals = NoSignals
    /\ starts = 0
    /\ outcome = NoOutcome
    /\ rlimit = NoLimits
    /\ attempts = <<>>
    /\ agg = NoAggCall
    /\ scan = NoScan


ParseAggregationArgsStep == \E d \in Directives : ParseAggregationArgs(d)
GetAggregatorStep == \E d \in Directives : GetAggregator(d)
AggregateResultsStep ==
    \E aggregator \in Aggregators, args \in ArgBags, results \in SeqsUpTo(Matches, MaxMatches) :
        AggregateResults(aggregator, args, results)
GetMotifsStep == \E req \in Searches : GetMotifs(req)

AggNext ==
    \/ ParseAggregationArgsStep
    \/ GetAggregatorStep
    \/ AggregateResultsStep
    \/ GetMotifsStep

AggSpec == AggInit /\ [][AggNext]_vars

-----------------------------------------------------------------------------
(* The providers' accepts, called on its own *)

\* provider.accepts(uri): the answer, and the table of uploads a temporary
\* provider leaves behind.
ProviderAccepts(p, uri) ==
    /\ ret' = [NoRouterCall EXCEPT !.op = "accepts", !.provider = p, !.uri = uri,
                                   !.valid = <<Accepts(p, uploaded_files, now, uri).ok>>]
    /\ uploaded_files' = Accepts(p, uploaded_files, now, uri).files
    /\ UNCHANGED <<providers, now>>
    /\ UNCHANGED notRouter

\* An S3 provider of bucket foo, filesystem providers of root "" and "/data",
\* an OpenCypher provider.
AcceptingProviders == {"s3_foo_1", "fs", "fs_data", "oc"}

\* URIs: a scheme, a bucket or directory and a name, and the end of the name:
\* nothing, an extension after a dot, the letters of one without a dot.
Schemes == {"s3://", "file://", "opencypher://", "cheese://"}
Middles == {<<"foo", "/", "bar">>, <<"baz", "/", "bar">>, <<"/data", "/bar">>, <<"/tmp/foo">>}
Endings ==
    {<<>>, <<".", "graphml">>, <<"graphml">>, <<".", "graphml", ".", "gz">>, <<".", "txt">>,
     <<".", "pickle">>}
AcceptUris == {<<scheme>> \o middle \o ending : scheme \in Schemes, middle \in Middles, ending \in Endings}

\* No provider has been asked.
AcceptsInit ==
    /\ request = NoRequest
    /\ max_duration_seconds = <<>>
    /\ query_limits = NoQueryLimits
    /\ machine = NoMachine
    /\ ram_limit = <<>>
    /\ hpc = "start"
    /\ bounded = <<>>
    /\ direct = <<>>
    /\ response = NoResponse
    /\ providers = <<>>
    /\ uploaded_files = [t \in {} |-> None]
    /\ now = 0
    /\ ret = NoRouterCall
    /\ all_hosts = <<>>
    /\ temporary_hosts = <<>>
    /\ reg = NoRegistryCall
    /\ call = NoInvocation
    /\ cpc = "idle"
    /\ wpc = "unstarted"
    /\ clock = 0
    /\ deadline = <<>>
    /\ finish_at = 0
    /\ feeder = <<>>
    /\ pipe = <<>>
    /\ signals = NoSignals
    /\ starts = 0
    /\ outcome = NoOutcome
    /\ rlimit = NoLimits
    /\ attempts = <<>>
    /\ agg = NoAggCall
    /\ scan = NoScan



ProviderAcceptsStep == \E p \in AcceptingProviders, uri \in AcceptUris : ProviderAccepts(p, uri)

AcceptsNext ==
    \/ ProviderAcceptsStep

AcceptsSpec == AcceptsInit /\ [][AcceptsNext]_vars

-----------------------------------------------------------------------------
(* Claims about the router *)

\* The positions of the table whose provider accepts uri, each asked on its own.
AcceptingAt(table, files, time, uri) ==
    {i \in 1..Len(table) : Accepts(table[i].provider, files, time, uri).ok}

\* The provider registered under id, None when there is none.
ProviderAt(table, id) ==
    IF \E i \in 1..Len(table) : table[i].id = id
    THEN table[CHOOSE i \in 1..Len(table) : table[i].id = id].provider
    ELSE None

\* The step is the call provider_for(uri) / add_provider(id, p) /
\* validate_all_hosts(hosts).
CallsProviderFor(uri) == ret'.op = "provider_for" /\ ret'.uri = uri /\ ProviderFor(uri)
CallsAddProvider(id, p) == ret'.op = "add_provider" /\ AddProvider(id, p)
CallsValidateAllHosts(hosts) == ret'.op = "validate_all_hosts" /\ ValidateAllHosts(hosts)

\* C1: provider_for(uri) returns the provider at the least position of the
\* table (registration order) whose accepts(uri) is true, and None exactly
\* when no registered provider accepts uri; of two accepting providers the
\* earlier-registered one is returned.
C1_FirstAcceptingProvider ==
    [][\A uri \in Uris : CallsProviderFor(uri) =>
        LET hits == AcceptingAt(providers, uploaded_files, now, uri) IN
        /\ (ret'.value = None) <=> (hits = {})
        /\ hits # {} => \E i \in hits : /\ \A j \in hits : i <= j
                                        /\ ret'.value = providers[i].provider]_vars

\* C1 witness: two providers of bucket foo are registered, both accept the
\* URI, and provider_for has returned the first.
C1_Witness ==
    /\ ret.op = "provider_for" /\ ret.uri = U_s3_foo /\ ret.value = "s3_foo_1"
    /\ Len(providers) = 2
    /\ providers[1].provider = "s3_foo_1" /\ providers[2].provider = "s3_foo_2"

\* C2 (as claimed): a provider_for call changes neither the provider table
\* nor the state of any provider, and a call repeated right after another
\* call with the same URI returns the same provider.
C2_ProviderForIsPure ==
    [][\A uri \in Uris : CallsProviderFor(uri) =>
        /\ providers' = providers
        /\ uploaded_files' = uploaded_files
        /\ (ret.op = "provider_for" /\ ret.uri = uri) => ret'.value = ret.value]_vars

\* C3: add_provider(id, provider) leaves provider stored under id, replacing
\* what id held, and touches no other id; the provider_for call that follows
\* it is resolved against the updated table: it returns the new provider when
\* that one accepts the URI and no provider ahead of it does.
C3_AddProviderSeenAtOnce ==
    [][/\ \A id \in ProviderIds, p \in ProviderInstances : CallsAddProvider(id, p) =>
            /\ ProviderAt(providers', id) = p
            /\ \A o \in ProviderIds \ {id} : ProviderAt(providers', o) = ProviderAt(providers, o)
            /\ \A i, j \in 1..Len(providers') : providers'[i].id = providers'[j].id => i = j
       /\ \A uri \in Uris : (ret.op = "add_provider" /\ CallsProviderFor(uri)) =>
            LET hits == AcceptingAt(providers, uploaded_files, now, uri)
                added == CHOOSE i \in 1..Len(providers) : providers[i].id = ret.id
            IN /\ providers[added].provider = ret.provider
               /\ (added \in hits /\ \A j \in hits : added <= j) => ret'.value = ret.provider]_vars

\* C3 witness: the call right after add_provider(id, p) has returned p.
C3_Witness ==
    /\ ret.op = "provider_for" /\ ret.uri = U_file
    /\ ret.after # None
    /\ ret.value = "fs" /\ ProviderAt(providers, ret.after) = "fs"

\* C4: validate_all_hosts(hosts) returns one boolean per element, in order,
\* element i being True iff some registered provider accepts the URI of
\* host i (the string itself, or the listing's uri); an unroutable host
\* yields False and the scan goes on; the provider table is left unchanged.
C4_ValidateAllHosts ==
    [][\A hosts \in HostLists : CallsValidateAllHosts(hosts) =>
        /\ Len(ret'.valid) = Len(hosts)
        /\ \A i \in 1..Len(hosts) :
              ret'.valid[i] =
                 (AcceptingAt(providers, uploaded_files, now,
                              IF hosts[i].kind = "str" THEN hosts[i].str ELSE hosts[i].listing[1].uri) # {})
        /\ providers' = providers]_vars

\* C4 witness: a routable host after an unroutable HostListing.
C4_Witness ==
    /\ ret.op = "validate_all_hosts"
    /\ ret.hosts = <<invalid_host, valid_host>>
    /\ ret.valid = <<FALSE, TRUE>>

-----------------------------------------------------------------------------
(* Claims about the host registry *)

CallsGetUriFromId(id) == reg'.op = "get_uri_from_id" /\ GetUriFromId(id)
CallsGetHostListingFromId(id) == reg'.op = "get_host_listing_from_id" /\ GetHostListingFromId(id)
CallsGetNameFromUri(uri) == reg'.op = "get_name_from_uri" /\ GetNameFromUri(uri)

\* The public listings followed by the unlisted ones.
PublicThenUnlisted == all_hosts \o temporary_hosts

\* The least member of a non-empty set of positions.
Least(S) == CHOOSE i \in S : \A j \in S : i <= j

\* C5: get_uri_from_id, get_host_listing_from_id and get_name_from_uri
\* return the value of the first matching listing of the public listings
\* followed by the unlisted ones (a public match wins over an unlisted one),
\* return None when no listing matches, and change neither collection.
C5_LookupsPublicFirst ==
    [][/\ \A id \in HostIds : CallsGetUriFromId(id) =>
            LET m == {i \in 1..Len(PublicThenUnlisted) : PublicThenUnlisted[i].id = id} IN
            /\ reg'.found_uri = IF m = {} THEN <<>> ELSE <<PublicThenUnlisted[Least(m)].uri>>
            /\ (\E h \in 1..Len(all_hosts) : all_hosts[h].id = id) =>
                  \E h \in 1..Len(all_hosts) : all_hosts[h].id = id /\ reg'.found_uri = <<all_hosts[h].uri>>
       /\ \A id \in HostIds : CallsGetHostListingFromId(id) =>
            LET m == {i \in 1..Len(PublicThenUnlisted) : PublicThenUnlisted[i].id = id} IN
            reg'.listing = IF m = {} THEN <<>> ELSE <<PublicThenUnlisted[Least(m)]>>
       /\ \A uri \in Uris : CallsGetNameFromUri(uri) =>
            LET m == {i \in 1..Len(PublicThenUnlisted) : PublicThenUnlisted[i].uri = uri} IN
            reg'.name = IF m = {} THEN None ELSE PublicThenUnlisted[Least(m)].name
       /\ reg'.op \in {"get_uri_from_id", "get_host_listing_from_id", "get_name_from_uri"} =>
            all_hosts' = all_hosts /\ temporary_hosts' = temporary_hosts]_vars

\* C5 witness: host id h1 is listed publicly and unlisted, with different
\* URIs, and get_uri_from_id("h1") has returned the public one.
C5_Witness ==
    /\ reg.op = "get_uri_from_id" /\ reg.id = "h1" /\ reg.found_uri = <<U_file>>
    /\ \E i \in 1..Len(all_hosts) : all_hosts[i] = Listing("h1", U_file, "A")
    /\ \E i \in 1..Len(temporary_hosts) : temporary_hosts[i] = Listing("h1", U_temp("t1"), "B")

\* C6 (as claimed): no host id occurs twice in the public listings followed
\* by the unlisted ones.
C6_HostIdsUnique == DistinctIds(PublicThenUnlisted)

-----------------------------------------------------------------------------
(* Claims about the executor *)

Done == cpc = "done"

WellBeforeDeadline ==
    call.timeout_seconds = <<>> \/ call.duration < call.timeout_seconds[1]

\* C9: when the operation returns normally well before the deadline, the call
\* returns exactly the value the operation returned, whatever that value is.
C9_ReturnsThePayload ==
    (Done /\ call.kind = "return" /\ WellBeforeDeadline)
        => (outcome.raised = None /\ outcome.returned = <<call.payload>>)

CallerSendsTerm == signals'.term /\ ~signals.term
CallerSendsKill == signals'.kill /\ ~signals.kill
CallerRaisesTimeout == outcome'.raised = "TimeoutError" /\ outcome.raised = None

\* C10, as stated in its last clause: once TimeoutError has been raised the
\* worker is no longer running.
C10_WorkerGoneAtTimeout == (Done /\ outcome.raised = "TimeoutError") => ~IsAlive

\* C10, amended: the termination signal is sent only once timeout_seconds has
\* elapsed and before any kill; the kill is sent only after the termination
\* signal, once the wait that followed it has run out in full, and before
\* anything is raised; TimeoutError is raised only after the termination
\* signal was sent, and at that moment the worker has exited or has been sent
\* the kill, whose effect is not waited for.
C10_TerminateWaitKillRaise ==
    [][ /\ CallerSendsTerm =>
             /\ clock >= call.timeout_seconds[1]
             /\ ~signals.kill
             /\ outcome = NoOutcome
        /\ CallerSendsKill =>
             /\ signals.term
             /\ clock >= deadline[1]
             /\ outcome = NoOutcome
        /\ CallerRaisesTimeout =>
             /\ signals.term
             /\ ~IsAlive \/ signals.kill ]_vars

C10_Witness ==
    /\ Done
    /\ outcome.raised = "TimeoutError"
    /\ signals.term
    /\ signals.kill
    /\ call.ignores_sigterm

\* C11: TimedOut is surfaced only when the worker has not reported by the
\* deadline.  The caller takes the TimedOut path (from proc.terminate() on,
\* TimeoutError is certain) only while nothing the worker has put is on the
\* result channel, written or waiting to be written.
C11_TimedOutOnlyIfNotReported ==
    [][CallerSendsTerm => (feeder = <<>> /\ pipe = <<>>)]_vars

\* C12: a worker that exits without having put anything on the channel makes
\* the call end, with nothing returned, and -- unless the timeout fired, that
\* is unless the termination signal was sent -- with MemoryError raised.
C12_DeadWorkerIsResourceExhausted ==
    (call.kind = "die") ~>
        (Done /\ outcome.returned = <<>>
              /\ (signals.term \/ outcome.raised = "MemoryError"))

C12_Witness ==
    Done /\ call.kind = "die" /\ ~signals.term /\ outcome.raised = "MemoryError"

\* C13: when the operation raises inside the worker (well before the deadline,
\* so that no timeout is in play), the call raises that same error and returns
\* nothing: never TimeoutError, never MemoryError in its place.
C13_ErrorPassedThrough ==
    (Done /\ call.kind = "raise" /\ WellBeforeDeadline)
        => (outcome.returned = <<>> /\ outcome.raised = call.error)

-----------------------------------------------------------------------------
(* Claims about the worker's resource limits *)

\* The resources the worker must try to limit for the arguments given, in order.
ExpectedAttempts ==
    (IF call.max_ram_bytes # <<>> THEN <<"RLIMIT_AS">> ELSE <<>>)
    \o (IF call.timeout_seconds # <<>> THEN <<"RLIMIT_CPU">> ELSE <<>>)

AttemptedResources == [i \in 1..Len(attempts) |-> attempts[i].resource]

\* The operation's result fits the channel: it can be pickled and the pipe takes it.
Reportable ==
    IF call.kind = "return"
    THEN Size(call.payload) <= PipeCapacity
    ELSE call.kind = "raise" /\ Picklable(call.error)

\* C14: before the operation starts no limit attempt is missing and none comes
\* later: the address-space attempt, then the CPU-time attempt, each made when
\* its argument is given; and whatever the attempts' results, failures
\* included, an operation that ends well before the deadline with a result
\* that fits the channel has that result delivered: its payload returned, or
\* its error raised.
C14_LimitsFirstFailuresSwallowed ==
    /\ wpc \in {"unstarted", "limits"} => attempts = <<>>
    /\ wpc \in {"running", "exiting"} => AttemptedResources = ExpectedAttempts
    /\ (Done /\ Reportable /\ WellBeforeDeadline) =>
         /\ AttemptedResources = ExpectedAttempts
         /\ IF call.kind = "return"
            THEN outcome.returned = <<call.payload>> /\ outcome.raised = None
            ELSE outcome.returned = <<>> /\ outcome.raised = call.error

C14_Witness ==
    /\ Done
    /\ call.kind = "return"
    /\ outcome.returned = <<call.payload>>
    /\ Len(attempts) = 2
    /\ attempts[1].result = "OSError"
    /\ attempts[2].result = "ValueError"

\* One ceiling is no higher than another, RLIM_INFINITY meaning no ceiling at all.
LimitLeq(a, b) == b = RLIM_INFINITY \/ (a # RLIM_INFINITY /\ a <= b)

\* What the worker asked for in its attempt on a resource.
Requested(resource) ==
    IF resource = "RLIMIT_AS" THEN call.max_ram_bytes[1] ELSE call.timeout_seconds[1]

Installed(resource) == IF resource = "RLIMIT_AS" THEN rlimit.as ELSE rlimit.cpu

\* C15: after a limit attempt that succeeded, the soft ceiling in force is the
\* smaller of the value asked for and the hard ceiling, whatever the hard
\* ceiling is, unlimited included: it exceeds neither of them.
C15_InstalledCeilingIsTheSmaller ==
    \A i \in 1..Len(attempts) :
        attempts[i].result = "ok" =>
            LET soft == Installed(attempts[i].resource)[1]
                hard == Installed(attempts[i].resource)[2]
                asked == Requested(attempts[i].resource)
            IN  /\ LimitLeq(soft, asked)
                /\ LimitLeq(soft, hard)
                /\ soft \in {asked, hard}

-----------------------------------------------------------------------------
(* Claims about the query handlers *)

\* The sum of a field over the handler's log of bounded calls.
RECURSIVE Total(_, _)
Total(log, field) == IF log = <<>> THEN 0 ELSE Head(log)[field] + Total(Tail(log), field)

MotifHandlers == {"count_motifs", "motifs"}

Responded == hpc = "done" /\ response.kind = "response"

\* C16: the executor keeps the serving task of one request for at most
\* max_duration_seconds, plus the time spent stopping workers after their
\* deadline, whatever the handler and the query type.
C16_BlockedAtMostTheDuration ==
    max_duration_seconds # <<>> =>
        Total(bounded, "elapsed") <= max_duration_seconds[1] + Total(bounded, "grace")

\* C17: no handler runs a provider operation that reads the graph on the
\* serving task: every such operation goes through run_with_limits.
C17_GraphReadsAreBounded == direct = <<>>

\* C18: no handler lets an exception escape; and a motif-count or
\* motif-search response of a request with a bounded call that did not
\* succeed has motif_count = -1 and an error message, a response without an
\* error message has motif_count >= 0, one with an error message has -1.
C18_FailuresAreCaught ==
    /\ response.kind # "uncaught"
    /\ (Responded /\ request.handler \in MotifHandlers) =>
         /\ (\E i \in 1..Len(bounded) : bounded[i].outcome # "Success") =>
              (response.motif_count = -1 /\ response.error # None)
         /\ response.error = None => response.motif_count >= 0
         /\ response.error # None => response.motif_count = -1

\* The directive cannot be executed: its arguments do not parse, or its kind is unknown.
InvalidDirective(d) == parse_aggregation_args(d).raised # None \/ get_aggregator(d) = None

\* C19: a motif-count or motif-search request with an invalid query or an
\* invalid aggregation directive is answered with an error and without any
\* bounded worker having been started.
C19_InvalidRequestStartsNoWorker ==
    (Responded /\ request.handler \in MotifHandlers
       /\ (~request.query_ok \/ InvalidDirective(request.aggregation_type)))
        => (bounded = <<>> /\ response.error # None)

\* C20: the motif_results of a successful motif-search response to a request
\* with an aggregation directive are the directive's transform applied to
\* all the matches of the query (for the sample transform: one of the samples
\* of all the matches).
C20_AggregationOverAllMatches ==
    (Responded /\ request.handler = "motifs" /\ response.error = None
       /\ request.aggregation_type # <<>>)
        => LET args == parse_aggregation_args(request.aggregation_type).args
               aggregator == get_aggregator(request.aggregation_type)
           IN  \E sample \in SamplesFor(args, request.matches) :
                   response.results =
                       ResultsOf(Aggregate(aggregator, args, request.matches, sample))

-----------------------------------------------------------------------------
(* Claims about the RAM limit the handlers give the executor *)

\* The total memory of the machine: what the first source that answers says.
TotalRamKnown ==
    \/ machine.system = "Linux" /\ machine.meminfo_opens /\ machine.MemTotal # <<>>
    \/ machine.system = "Darwin" /\ machine.hw_memsize # <<>>
    \/ (machine.system = "Linux" => machine.meminfo_opens) /\ machine.psutil # <<>>
TotalRam ==
    IF machine.system = "Linux" /\ machine.MemTotal # <<>> THEN 1024 * machine.MemTotal[1]
    ELSE IF machine.system = "Darwin" /\ machine.hw_memsize # <<>> THEN machine.hw_memsize[1]
    ELSE machine.psutil[1]

\* floor(n * f) for a fraction f = <<numerator, denominator>>
Floor(n, f) == CHOOSE k \in 0..(n * f[1]) : k * f[2] <= n * f[1] /\ n * f[1] < (k + 1) * f[2]

\* The limit the configuration asks for.
EffectiveRamLimit ==
    IF query_limits.max_ram_bytes # <<>> THEN query_limits.max_ram_bytes[1]
    ELSE Floor(TotalRam, IF query_limits.max_ram_pct = <<>> THEN <<1, 2>>
                         ELSE query_limits.max_ram_pct[1])

\* C21: every run_with_limits call of a handler is given a RAM limit that is
\* a number, never None: the configured max_ram_bytes when there is one,
\* otherwise floor(total RAM * max_ram_pct), max_ram_pct being 0.5 when the
\* configuration has none; and when there is no configured max_ram_bytes and
\* the total RAM cannot be determined, a request to a handler that uses the
\* executor ends in an error without any run_with_limits call.
C21_ExecutorGetsConcreteRamLimit ==
    /\ \A i \in 1..Len(bounded) :
         /\ bounded[i].max_ram_bytes # <<>>
         /\ query_limits.max_ram_bytes # <<>> \/ TotalRamKnown
         /\ bounded[i].max_ram_bytes[1] = EffectiveRamLimit
    /\ (query_limits.max_ram_bytes = <<>> /\ ~TotalRamKnown) =>
         /\ bounded = <<>>
         /\ (hpc = "done" /\ request.handler \notin DirectHandlers) =>
              response.kind \in {"uncaught", "http_error"}

\* A call made with half of an odd total, no limit and no fraction configured.
C21_Witness ==
    /\ bounded # <<>>
    /\ query_limits = NoQueryLimits
    /\ machine.system = "Windows" /\ machine.psutil = <<3>>
    /\ bounded[1].max_ram_bytes = <<1>>

-----------------------------------------------------------------------------
(* Claims about the aggregation directive *)

\* The text left of the first "|" of a directive, and the text right of it.
LeftOfFirstBar(d) == SubSeq(d, 1, FirstBar(d) - 1)
RightOfFirstBar(d) == SubSeq(d, FirstBar(d) + 1, Len(d))

\* How many "|" a directive has.
Bars(d) == Cardinality({i \in 1..Len(d) : d[i] = "|"})

Parsed == agg.op = "parse_aggregation_args"
Selected == agg.op = "get_aggregator"

\* C22 as stated: an empty or absent directive, or one with no "|", denotes
\* the identity transform with args {}; a directive "kind | json" gives kind =
\* the trimmed text left of the first "|" and args = the JSON object right of it.
C22_NoBarIsIdentity ==
    /\ (Selected /\ ~HasBar(agg.directive)) => agg.aggregator = "MotifResultsAggregator"
    /\ (Parsed /\ ~HasBar(agg.directive)) => agg.raised = None /\ agg.args = NoArgs
    /\ (Selected /\ HasBar(agg.directive)) => agg.kind = Strip(LeftOfFirstBar(agg.directive))
    /\ (Parsed /\ Bars(agg.directive) = 1 /\ JsonLoads(RightOfFirstBar(agg.directive)).raised = None) =>
         agg.raised = None /\ agg.args = JsonLoads(RightOfFirstBar(agg.directive)).args

\* C22, amended: an empty or absent directive denotes the identity transform
\* with args {}; a directive with no "|" has the whole directive, untrimmed,
\* as its kind, with args {} ("host.vertex" gives host-vertex grouping); a
\* directive "kind | json" with one "|" gives kind = the trimmed text left of
\* the "|" and args = the JSON object right of it ("sample | {limit: 2}"
\* gives the sample aggregator with limit 2).
C22_KindAndArgs ==
    /\ (Selected /\ agg.directive = <<>>) => agg.aggregator = "MotifResultsAggregator"
    /\ (Selected /\ ~HasBar(agg.directive)) => agg.kind = agg.directive
    /\ (Selected /\ agg.directive = <<"host.vertex">>) =>
         agg.aggregator = "MotifResultsHostVertexCountAggregator"
    /\ (Parsed /\ ~HasBar(agg.directive)) => agg.raised = None /\ agg.args = NoArgs
    /\ (Selected /\ HasBar(agg.directive)) => agg.kind = Strip(LeftOfFirstBar(agg.directive))
    /\ (Parsed /\ Bars(agg.directive) = 1 /\ JsonLoads(RightOfFirstBar(agg.directive)).raised = None) =>
         agg.raised = None /\ agg.args = JsonLoads(RightOfFirstBar(agg.directive)).args
    /\ (Parsed /\ agg.directive = <<"sample", "|", "{limit:2}">>) => agg.args.limit = <<2>>

\* A kind with white space before the "|" has been selected.
C22_Witness ==
    /\ Selected
    /\ agg.directive = <<"host.vertex", " ", "|", " ", "{limit:1}">>
    /\ agg.kind = <<"host.vertex">>
    /\ agg.aggregator = "MotifResultsHostVertexCountAggregator"

\* C23: a directive whose JSON has a "|" in it still parses: what follows the
\* first "|" is parsed as one JSON object, and the args are that object.
C23_BarInsideJsonParses ==
    (Parsed /\ Bars(agg.directive) > 1 /\ JsonLoads(RightOfFirstBar(agg.directive)).raised = None) =>
        agg.raised = None /\ agg.args = JsonLoads(RightOfFirstBar(agg.directive)).args

\* C24: a directive with a "|" whose text after the first "|" is no JSON
\* makes parse_aggregation_args raise, and get_motifs with it once the motif
\* has parsed; it is never taken as a directive with args {}.
C24_MalformedJsonRaises ==
    (/\ HasBar(agg.directive)
     /\ JsonLoads(RightOfFirstBar(agg.directive)).raised # None
     /\ Parsed \/ (agg.op = "get_motifs" /\ Len(agg.trace) > 1)) =>
        agg.raised # None

\* The kinds an aggregator class exists for.
KindsWithAggregator == {<<>>, <<"host.vertex">>, <<"motif.vertex">>, <<"sample">>}

Searched == agg.op = "get_motifs"

\* C25: for a directive whose kind no aggregator exists for, get_aggregator
\* returns None; and get_motifs, once the motif and the arguments have parsed,
\* raises ValueError ("Invalid aggregation type") without loading the graph,
\* searching or aggregating, and returns no results.
C25_UnknownKindIsAnError ==
    /\ (Selected /\ agg.kind \notin KindsWithAggregator) => agg.aggregator = None
    /\ (/\ Searched
        /\ AggKind(agg.directive) \notin KindsWithAggregator
        /\ Len(agg.trace) > 1
        /\ parse_aggregation_args(agg.directive).raised = None) =>
         /\ agg.raised = "ValueError"
         /\ agg.trace = <<"Motif", "parse_aggregation_args", "get_aggregator">>
         /\ agg.list = <<>> /\ agg.host_verts = EmptyDict /\ agg.motif_verts = EmptyDict

\* get_motifs has refused a kind nobody knows.
C25_Witness ==
    /\ Searched
    /\ agg.directive = <<"bogus">>
    /\ agg.raised = "ValueError"
    /\ agg.trace = <<"Motif", "parse_aggregation_args", "get_aggregator">>

\* C26: every kind explain_valid lists, and the empty kind, has an aggregator:
\* get_aggregator gives host.vertex, motif.vertex, motif.vertex.attribute and
\* sample each an aggregator class of its own, and the empty kind the base class.
C26_EveryListedKindHasAnAggregator ==
    /\ (Selected /\ agg.kind \in explain_valid \cup {<<>>}) => agg.aggregator # None
    /\ (Selected /\ agg.kind = <<>>) => agg.aggregator = "MotifResultsAggregator"
    /\ \A d \in explain_valid :
         (Selected /\ agg.kind \in explain_valid /\ d # agg.kind) =>
             get_aggregator(d) # agg.aggregator

-----------------------------------------------------------------------------
(* Claims about the aggregators *)

Aggregated(aggregator) == agg.op = "aggregate" /\ agg.aggregator = aggregator

\* How many (match, binding) pairs of a list bind motif vertex m to host vertex h.
Pairs(results, h, m) == Cardinality({i \in 1..Len(results) : results[i][m] = h})

\* A list in another order.
Permuted(results, perm) == [i \in 1..Len(results) |-> results[perm[i]]]

\* C27: the map of host-vertex grouping has result[h][m] = the number of
\* (match, binding) pairs binding m to h, and no entry for a pair that does
\* not occur; it is the same for every permutation of the match list; and
\* the map of motif-vertex grouping is its transpose.
C27_HostVertexGrouping ==
    /\ Aggregated("MotifResultsHostVertexCountAggregator") =>
         /\ agg.raised = None
         /\ \A h \in DOMAIN agg.host_verts :
              /\ DOMAIN agg.host_verts[h] # {}
              /\ \A m \in DOMAIN agg.host_verts[h] :
                   agg.host_verts[h][m] > 0 /\ agg.host_verts[h][m] = Pairs(agg.results, h, m)
         /\ \A h \in HostVerts, m \in MotifVerts :
              Pairs(agg.results, h, m) > 0 =>
                  h \in DOMAIN agg.host_verts /\ m \in DOMAIN agg.host_verts[h]
         /\ \A perm \in Permutations(1..Len(agg.results)) :
              CountLoop(Permuted(agg.results, perm), 1, EmptyDict, "host").out = agg.host_verts
    /\ Aggregated("MotifResultsMotifVertexCountAggregator") =>
         /\ agg.raised = None
         /\ LET host_result == CountLoop(agg.results, 1, EmptyDict, "host").out
            IN  /\ \A m \in DOMAIN agg.motif_verts : \A h \in DOMAIN agg.motif_verts[m] :
                     /\ h \in DOMAIN host_result /\ m \in DOMAIN host_result[h]
                     /\ agg.motif_verts[m][h] = host_result[h][m]
                /\ \A h \in DOMAIN host_result : \A m \in DOMAIN host_result[h] :
                     m \in DOMAIN agg.motif_verts /\ h \in DOMAIN agg.motif_verts[m]

\* A pair that occurs twice has been counted, and another pair has no entry.
C27_Witness ==
    /\ Aggregated("MotifResultsHostVertexCountAggregator")
    /\ Len(agg.results) = 2
    /\ \E h \in DOMAIN agg.host_verts : \E m \in DOMAIN agg.host_verts[h] :
         /\ agg.host_verts[h][m] = 2
         /\ DOMAIN agg.host_verts[h] # MotifVerts

\* C28: the sample aggregator with limit k (1 when absent) on N matches
\* returns k matches taken from k distinct positions of the input, all N of
\* them once each when k = N, and raises when k > N.
C28_SampleOfDistinctPositions ==
    Aggregated("MotifResultsSampleAggregator") =>
        LET k == IF agg.args.limit = <<>> THEN 1 ELSE agg.args.limit[1]
            N == Len(agg.results)
        IN  /\ k > N => agg.raised # None /\ agg.list = <<>>
            /\ k <= N =>
                 /\ agg.raised = None
                 /\ Len(agg.list) = k
                 /\ \E pos \in [1..k -> 1..N] :
                      /\ \A i, j \in 1..k : i # j => pos[i] # pos[j]
                      /\ \A i \in 1..k : agg.list[i] = agg.results[pos[i]]
                      /\ k = N => \A n \in 1..N : \E i \in 1..k : pos[i] = n

\* A sample of all of two different matches, in the other order.
C28_Witness ==
    /\ Aggregated("MotifResultsSampleAggregator")
    /\ agg.args.limit = <<2>>
    /\ Len(agg.results) = 2
    /\ agg.results[1] # agg.results[2]
    /\ agg.list = <<agg.results[2], agg.results[1]>>

\* C29: after aggregate returns, the input list and the matches in it are
\* what they were, for each of the four aggregators; and the base aggregator
\* returns the input list.
C29_InputNotMutated ==
    /\ agg.op = "aggregate" => agg.after = agg.results
    /\ Aggregated("MotifResultsAggregator") => agg.raised = None /\ agg.list = agg.results

\* A grouping has gone through two matches and left them in place.
C29_Witness ==
    /\ Aggregated("MotifResultsMotifVertexCountAggregator")
    /\ Len(agg.results) = 2
    /\ agg.after = agg.results
    /\ DOMAIN agg.motif_verts = MotifVerts

-----------------------------------------------------------------------------
(* Claims about the providers' accepts *)

\* A URI ends with a recognized graph-file extension: a dot and one of the
\* keys of ACCEPTED_EXTENSIONS.
HasAcceptedExtension(uri) == \E ext \in ACCEPTED_EXTENSIONS : EndsWith(uri, <<".">> \o ext)

Asked(type) == ret.op = "accepts" /\ ProviderType(ret.provider) = type

\* C30: the filesystem provider accepts a URI iff it starts with
\* file://<root> and ends with a recognized graph-file extension; the S3
\* provider iff it starts with s3://<bucket>/ and ends with a recognized
\* extension; the OpenCypher provider iff it starts with opencypher://.
C30_AcceptsBySchemeAndExtension ==
    /\ Asked("FilesystemGraphHostProvider") =>
         (ret.valid[1] <=> (/\ StartsWith(ret.uri, <<"file://">> \o Root(ret.provider))
                            /\ HasAcceptedExtension(ret.uri)))
    /\ Asked("S3GraphMLHostProvider") =>
         (ret.valid[1] <=> (/\ StartsWith(ret.uri, <<"s3://", Bucket(ret.provider), "/">>)
                            /\ HasAcceptedExtension(ret.uri)))
    /\ Asked("OpenCypherHostProvider") =>
         (ret.valid[1] <=> StartsWith(ret.uri, <<"opencypher://">>))

-----------------------------------------------------------------------------
(* The result hand-off between the worker and the caller *)

\* The worker has put its result and waits for the queue's feeder thread,
\* while the caller is still in the first proc.join.
HandOffPending == cpc = "join1" /\ wpc = "exiting" /\ feeder # <<>>

\* C35: the hand-off cannot deadlock: whatever the size of the payload, while
\* the caller still waits for the worker to exit the worker's pending result
\* can be written to the channel (so that the worker can exit and the caller
\* reads the payload instead of waiting out the timeout).
C35_HandOffCannotDeadlock ==
    (HandOffPending /\ Picklable(Head(feeder).payload))
        => (Size(Head(feeder).payload) <= PipeCapacity /\ pipe = <<>>)

-----------------------------------------------------------------------------
(* Re-registering a provider id *)

\* The resolution order: the ids of the table, in the order provider_for scans them.
Ids(table) == [i \in 1..Len(table) |-> table[i].id]

\* C36: add_provider with an id the router already holds replaces the provider
\* in place: the ids are scanned in the same order as before, the id's item
\* holds the new provider and every other item is what it was.
C36_ReplacesInPlace ==
    [][ (ret'.op = "add_provider" /\ \E i \in 1..Len(providers) : providers[i].id = ret'.id)
          => /\ Ids(providers') = Ids(providers)
             /\ \A i \in 1..Len(providers) :
                   providers'[i] = IF providers[i].id = ret'.id
                                   THEN [id |-> ret'.id, provider |-> ret'.provider]
                                   ELSE providers[i] ]_vars

\* The id scanned first was registered again after a second id had been added.
C36_Witness ==
    /\ Len(providers) = 2
    /\ ret.op = "add_provider"
    /\ ret.id = providers[1].id
    /\ providers[1].provider = ret.provider
    /\ providers[2].provider # ret.provider

-----------------------------------------------------------------------------
(* Loading a graph file and counting a motif in it *)

MaxNodes == 4

HasDot(str) == \E i \in 1..Len(str) : str[i] = "."

\* Where the last "." of a string with one is.
LastDot(str) == CHOOSE i \in 1..Len(str) : str[i] = "." /\ \A j \in (i + 1)..Len(str) : str[j] # "."

\* uri.split(".")[-1]: what follows the last dot, the whole string when it has none.
LastPiece(str) == IF HasDot(str) THEN SubSeq(str, LastDot(str) + 1, Len(str)) ELSE str

\* ACCEPTED_EXTENSIONS[key] as it would be with the graphml entries bound to read_gml.
ReaderGml(key) ==
    CASE key \in {<<"graphml">>, <<"graphml", ".", "gz">>, <<"gml">>} -> "read_gml"
      [] key \in {<<"gexf">>, <<"gexf", ".", "gz">>} -> "read_gexf"
      [] key \in {<<"pickle">>, <<"gpickle">>} -> "_read_gpickle"

\* ACCEPTED_EXTENSIONS[key], for a key of the dict
Reader(key) ==
    CASE key \in {<<"graphml">>, <<"graphml", ".", "gz">>} -> "read_graphml"
      [] key = <<"gml">> -> "read_gml"
      [] key \in {<<"gexf">>, <<"gexf", ".", "gz">>} -> "read_gexf"
      [] key \in {<<"pickle">>, <<"gpickle">>} -> "_read_gpickle"

\* The format each reader parses.
ReaderFormat(reader) ==
    CASE reader = "read_graphml" -> "graphml"
      [] reader = "read_gml" -> "gml"
      [] reader = "read_gexf" -> "gexf"
      [] reader = "_read_gpickle" -> "pickle"

\* nx.complete_graph(n, create_using=nx.DiGraph): vertices 0..n-1, an edge
\* from every vertex to every other one.
complete_graph(n) ==
    [nodes |-> 0..(n - 1), edges |-> {e \in (0..(n - 1)) \X (0..(n - 1)) : e[1] # e[2]}]

NoGraph == [nodes |-> {}, edges |-> {}]

\* GraphML stores a vertex id as text: the vertex read back for vertex v.
NodeText(v) == <<"str", v>>

\* What a reader gives on a file: the file is missing, it is in another
\* format than the reader's, or it holds a graph (written with its vertex ids as text).
Read(reader, content) ==
    IF content = <<>> THEN [raised |-> "FileNotFoundError", graph |-> NoGraph]
    ELSE IF content[1].format # ReaderFormat(reader)
    THEN [raised |-> "NetworkXError", graph |-> NoGraph]
    ELSE [raised |-> None,
          graph |-> [nodes |-> {NodeText(v) : v \in content[1].graph.nodes},
                     edges |-> {<<NodeText(e[1]), NodeText(e[2])>> : e \in content[1].graph.edges}]]

\* SingleFileGraphHostProvider.get_networkx_graph(uri) on a file: the reader
\* looked up, and what calling it gives (KeyError when the lookup fails).
SingleFileGetNetworkxGraph(uri, content) ==
    LET key == LastPiece(uri) IN
    IF key \notin ACCEPTED_EXTENSIONS
    THEN [raised |-> "KeyError", reader |-> None, graph |-> NoGraph]
    ELSE Read(Reader(key), content) @@ [reader |-> Reader(key)]

\* filepath.replace("$", str(cwd))
ReplaceDollar(path) == [i \in 1..Len(path) |-> IF path[i] = "$" THEN "<cwd>" ELSE path[i]]

\* FilesystemGraphHostProvider.get_networkx_graph(uri)
FilesystemGetNetworkxGraph(uri, content) ==
    LET filepath == DropFirst(uri, 1)
        path == IF filepath # <<>> /\ filepath[1] = "$" THEN ReplaceDollar(filepath) ELSE filepath
    IN  SingleFileGetNetworkxGraph(path, content)

\* GrandIsoExecutor(graph=graph).count(Motif("A->B")): the assignments of two
\* different vertices to A and B with an edge from A's to B's.
CountAB(graph) ==
    Cardinality({m \in [MotifVerts -> graph.nodes] :
                    m["A"] # m["B"] /\ <<m["A"], m["B"]>> \in graph.edges})

\* SingleFileGraphHostProvider().get_networkx_graph(uri), the file at uri holding content
GetNetworkxGraph(uri, content) ==
    LET r == SingleFileGetNetworkxGraph(uri, content) IN
    /\ ret' = [NoRouterCall EXCEPT !.op = "get_networkx_graph", !.uri = uri,
                                   !.raised = r.raised, !.reader = r.reader,
                                   !.vertices = Cardinality(r.graph.nodes)]
    /\ UNCHANGED <<providers, uploaded_files, now>>
    /\ UNCHANGED notRouter

\* FilesystemGraphHostProvider().get_motif_count(uri, "A->B"), the file at
\* uri holding content
GetMotifCount(uri, content) ==
    LET r == FilesystemGetNetworkxGraph(uri, content) IN
    /\ ret' = [NoRouterCall EXCEPT !.op = "get_motif_count", !.uri = uri, !.provider = "fs",
                                   !.raised = r.raised, !.reader = r.reader,
                                   !.vertices = Cardinality(r.graph.nodes),
                                   !.count = IF r.raised = None THEN CountAB(r.graph) ELSE 0]
    /\ UNCHANGED <<providers, uploaded_files, now>>
    /\ UNCHANGED notRouter

\* Paths and URIs of graph files: a scheme or none, a directory and a name,
\* and the end of the name.
LoadPrefixes == {<<>>, <<"file://">>}
LoadMiddles == {<<"/data", "/bar">>, <<"$", "/bar">>, <<"/data", ".", "d", "/bar">>}
LoadEndings ==
    {<<>>, <<"graphml">>, <<".", "graphml">>, <<".", "graphml", ".", "gz">>, <<".", "gml">>,
     <<".", "gexf", ".", "gz">>, <<".", "gpickle">>, <<".", "txt">>}
LoadUris(prefix) == {prefix \o middle \o ending : middle \in LoadMiddles, ending \in LoadEndings}

\* What a file can hold: nothing (no such file), or a complete directed graph
\* written in GraphML or in GML.
FileContents ==
    {<<>>} \cup {<<[format |-> f, graph |-> complete_graph(n)]>> :
                    f \in {"graphml", "gml"}, n \in 0..MaxNodes}

\* No graph has been loaded.
LoadInit ==
    /\ request = NoRequest
    /\ max_duration_seconds = <<>>
    /\ query_limits = NoQueryLimits
    /\ machine = NoMachine
    /\ ram_limit = <<>>
    /\ hpc = "idle"
    /\ bounded = <<>>
    /\ direct = <<>>
    /\ response = NoResponse
    /\ providers = <<>>
    /\ uploaded_files = [t \in {} |-> None]
    /\ now = 0
    /\ ret = NoRouterCall
    /\ all_hosts = <<>>
    /\ temporary_hosts = <<>>
    /\ reg = NoRegistryCall
    /\ call = NoInvocation
    /\ cpc = "idle"
    /\ wpc = "unstarted"
    /\ clock = 0
    /\ deadline = <<>>
    /\ finish_at = 0
    /\ feeder = <<>>
    /\ pipe = <<>>
    /\ signals = NoSignals
    /\ starts = 0
    /\ outcome = NoOutcome
    /\ rlimit = NoLimits
    /\ attempts = <<>>
    /\ agg = NoAggCall
    /\ scan = NoScan

GetNetworkxGraphStep == \E uri \in LoadUris(<<>>), content \in FileContents : GetNetworkxGraph(uri, content)
GetMotifCountStep == \E uri \in LoadUris(<<"file://">>), content \in FileContents : GetMotifCount(uri, content)

LoadNext ==
    \/ GetNetworkxGraphStep
    \/ GetMotifCountStep

LoadSpec == LoadInit /\ [][LoadNext]_vars

\* C34: get_motif_count(uri, "A->B") on a complete directed graph with n
\* vertices, served by the filesystem provider from a .graphml URI, returns
\* n * (n - 1): 12 for 4 vertices.
C34_CompleteGraphCount ==
    [][ \A n \in 0..MaxNodes, uri \in LoadUris(<<"file://">>) :
          (EndsWith(uri, <<".", "graphml">>)
             /\ GetMotifCount(uri, <<[format |-> "graphml", graph |-> complete_graph(n)]>>))
             => (ret'.raised = None /\ ret'.count = n * (n - 1)) ]_vars

\* K4 counted from a .graphml file: 12.
C34_Witness ==
    /\ ret.op = "get_motif_count"
    /\ EndsWith(ret.uri, <<".", "graphml">>)
    /\ ret.raised = None
    /\ ret.vertices = 4
    /\ ret.count = 12

\* C40: for every URI SingleFileGraphHostProvider.accepts returns true for,
\* the compound extensions graphml.gz and gexf.gz included, get_networkx_graph
\* finds a reader, the one of the extension the URI ends with, and does not
\* fail on the lookup.
C40_AcceptedUriHasAReader ==
    (ret.op = "get_networkx_graph" /\ SingleFileAccepts(ret.uri))
        => /\ ret.raised # "KeyError"
           /\ \E ext \in ACCEPTED_EXTENSIONS : EndsWith(ret.uri, ext) /\ ret.reader = Reader(ext)

-----------------------------------------------------------------------------
(* The upload handlers: routers/uploads.py over the router, the registry and *)
(* the module's TemporaryGraphHostProvider (_temp_provider, "temp")          *)

notUploads == <<execVars, handlerVars, aggVars, scanVars>>

\* The ids uuid4 hands out.
UploadIds == {"t1", "t2"}

\* file.filename: none, or a name.
UploadNames ==
    { <<>>, <<"graph", ".", "graphml">>, <<"graph", ".", "graphml", ".", "gz">> }

\* "TemporaryGraphHostProvider" in commons.host_provider_router._providers
Registered(table, id) == \E i \in 1..Len(table) : table[i].id = id

\* TemporaryGraphHostProvider.cleanup_file: the table left and the answer;
\* os_error: os.remove raises.
cleanup_file(files, temp_id, os_error) ==
    IF temp_id \notin DOMAIN files THEN [files |-> files, value |-> FALSE]
    ELSE IF os_error THEN [files |-> files, value |-> FALSE]
    ELSE [files |-> [t \in DOMAIN files \ {temp_id} |-> files[t]], value |-> TRUE]

\* TemporaryGraphHostProvider.get_networkx_graph(uri): what it raises or the
\* reader it returns the graph of, and the table it leaves behind.  content is
\* what the stored file holds, nothing when the file is gone from the disk.
TemporaryGetNetworkxGraph(files, time, uri, content) ==
    IF ~StartsWith(uri, <<"temp://">>)
    THEN [raised |-> "ValueError", reader |-> None, files |-> files]
    ELSE LET temp_id == TempIdOf(uri) IN
         IF temp_id \notin DOMAIN files
         THEN [raised |-> "FileNotFoundError", reader |-> None, files |-> files]
         ELSE IF time > files[temp_id].expires_at
         THEN [raised |-> "FileNotFoundError", reader |-> None,
               files |-> CleanupSingleFile(files, temp_id)]
         ELSE IF content = <<>>
         THEN [raised |-> "FileNotFoundError", reader |-> None, files |-> files]
         ELSE IF EndsWith(files[temp_id].filepath, <<".", "csv">>)
         THEN [raised |-> IF content[1].format = "csv" THEN None ELSE "ValueError",
               reader |-> "_read_csv_edgelist", files |-> files]
         ELSE LET r == SingleFileGetNetworkxGraph(files[temp_id].filepath, content)
              IN  [raised |-> r.raised, reader |-> r.reader, files |-> files]

\* POST /uploads/graph: upload_graph(file, name=None); empty: the file has no content.
UploadGraph(temp_id, filename, empty) ==
    IF filename = <<>> \/ empty
    THEN /\ ret' = [NoRouterCall EXCEPT !.op = "upload_graph", !.filename = filename,
                                        !.valid = <<FALSE>>]
         /\ UNCHANGED <<providers, uploaded_files, now, registryVars>>
         /\ UNCHANGED notUploads
    ELSE /\ temp_id \notin DOMAIN uploaded_files
         /\ FirstWithId(temporary_hosts, 1, temp_id) = 0
         /\ Len(temporary_hosts) < MaxTempHosts
         /\ uploaded_files' = store_file(uploaded_files, temp_id, filename, now)
         /\ temporary_hosts' = Append(temporary_hosts, Listing(temp_id, U_temp(temp_id), filename))
         /\ providers' = IF Registered(providers, "TemporaryGraphHostProvider")
                         THEN providers
                         ELSE DictSet(providers, "TemporaryGraphHostProvider", "temp")
         /\ ret' = [NoRouterCall EXCEPT !.op = "upload_graph", !.filename = filename,
                                        !.temp_id = temp_id, !.valid = <<TRUE>>]
         /\ UNCHANGED <<now, all_hosts, reg>>
         /\ UNCHANGED notUploads

\* DELETE /uploads/temporary/{temp_id}: cleanup_temporary_graph(temp_id)
CleanupTemporaryGraph(temp_id, os_error) ==
    LET r == remove_temporary_host(temporary_hosts, temp_id)
        c == cleanup_file(uploaded_files, temp_id, os_error)
    IN  /\ temporary_hosts' = r.hosts
        /\ uploaded_files' = c.files
        /\ ret' = [NoRouterCall EXCEPT !.op = "cleanup_temporary_graph", !.temp_id = temp_id,
                                       !.valid = <<c.value>>]
        /\ UNCHANGED <<providers, now, all_hosts, reg>>
        /\ UNCHANGED notUploads

\* _temp_provider.get_networkx_graph(uri)
TempGetNetworkxGraph(uri, content) ==
    LET r == TemporaryGetNetworkxGraph(uploaded_files, now, uri, content) IN
    /\ uploaded_files' = r.files
    /\ ret' = [NoRouterCall EXCEPT !.op = "get_networkx_graph", !.provider = "temp", !.uri = uri,
                                   !.raised = r.raised, !.reader = r.reader]
    /\ UNCHANGED <<providers, now>>
    /\ UNCHANGED notRouter

\* GET /providers/hosts: list_hosts
ListHosts ==
    /\ reg' = [NoRegistryCall EXCEPT !.op = "list_hosts",
                  !.listed = [i \in 1..Len(all_hosts) |->
                                 [name |-> all_hosts[i].name, id |-> all_hosts[i].id]]]
    /\ UNCHANGED <<all_hosts, temporary_hosts>>
    /\ UNCHANGED notRegistry

\* The routers a configuration can build: a filesystem provider alone, or
\* after it a TemporaryGraphHostProvider of the configuration's own under that name.
ConfigRouters ==
    { <<[id |-> "fs", provider |-> "fs"]>>,
      <<[id |-> "fs", provider |-> "fs"],
        [id |-> "TemporaryGraphHostProvider", provider |-> "temp_cfg"]>> }

ConfigHosts == { <<Listing("h1", U_file, <<"A">>)>> }

\* What the stored file holds when it is read.
UploadContents ==
    {<<>>, <<[format |-> "graphml", graph |-> complete_graph(2)]>>}

\* The server has started: the configuration is loaded, nothing is uploaded.
UploadsInit ==
    /\ providers \in ConfigRouters
    /\ all_hosts \in ConfigHosts
    /\ uploaded_files = NoFiles
    /\ temporary_hosts = <<>>
    /\ now = 0
    /\ ret = NoRouterCall
    /\ reg = NoRegistryCall
    /\ request = NoRequest
    /\ max_duration_seconds = <<>>
    /\ query_limits = NoQueryLimits
    /\ machine = NoMachine
    /\ ram_limit = <<>>
    /\ hpc = "idle"
    /\ bounded = <<>>
    /\ direct = <<>>
    /\ response = NoResponse
    /\ call = NoInvocation
    /\ cpc = "idle"
    /\ wpc = "unstarted"
    /\ clock = 0
    /\ deadline = <<>>
    /\ finish_at = 0
    /\ feeder = <<>>
    /\ pipe = <<>>
    /\ signals = NoSignals
    /\ starts = 0
    /\ outcome = NoOutcome
    /\ rlimit = NoLimits
    /\ attempts = <<>>
    /\ agg = NoAggCall
    /\ scan = NoScan

UploadGraphStep ==
    \E t \in UploadIds, filename \in UploadNames, empty \in BOOLEAN : UploadGraph(t, filename, empty)
CleanupTemporaryGraphStep ==
    \E t \in UploadIds, os_error \in BOOLEAN : CleanupTemporaryGraph(t, os_error)
TempProviderForStep == \E t \in UploadIds : ProviderFor(U_temp(t))
TempAcceptsStep == \E t \in UploadIds : ProviderAccepts("temp", U_temp(t))
TempGetNetworkxGraphStep ==
    \E t \in UploadIds, content \in UploadContents : TempGetNetworkxGraph(U_temp(t), content)
TempGetUriFromIdStep == \E id \in UploadIds : GetUriFromId(id)

UploadsNext ==
    \/ UploadGraphStep
    \/ CleanupTemporaryGraphStep
    \/ TempProviderForStep
    \/ TempAcceptsStep
    \/ TempGetNetworkxGraphStep
    \/ TempGetUriFromIdStep
    \/ ListHosts
    \/ Tick

UploadsSpec == UploadsInit /\ [][UploadsNext]_vars

-----------------------------------------------------------------------------
(* Uploads: expiry, listing, routing, cleanup *)

\* An access of the upload provider: a call that reads its table for a URI.
Accesses == {"provider_for", "accepts", "get_networkx_graph"}

\* The step is an access that finds upload t expired and drops its entry.
DropsExpired(t) ==
    /\ ret'.op \in Accesses
    /\ t \in DOMAIN uploaded_files
    /\ now > uploaded_files[t].expires_at
    /\ t \notin DOMAIN uploaded_files'

\* C32: once an upload's expiry has passed and an access has made the
\* provider drop its entry, the upload's HostListing is no longer in the
\* unlisted collection and get_uri_from_id(id) returns None.
C32_ExpiredUploadIsUnlisted ==
    [][ \A t \in UploadIds :
          DropsExpired(t)
            => /\ FirstWithId(temporary_hosts', 1, t) = 0
               /\ get_uri_from_id(all_hosts', temporary_hosts', t) = <<>> ]_vars

\* Upload t is live: the provider holds its file and it has not expired.
Live(t) == t \in DOMAIN uploaded_files /\ now <= uploaded_files[t].expires_at

\* list_hosts of the hosts of a list
Listed(hosts) == [i \in 1..Len(hosts) |-> [name |-> hosts[i].name, id |-> hosts[i].id]]

\* C33: uploads and cleanups never change all_hosts, so list_hosts is
\* exactly the configuration's list and shows no upload, while every live
\* upload is found by get_uri_from_id under its exact id.
C33_UnlistedButReachable ==
    [][ /\ all_hosts' = all_hosts
        /\ reg'.op = "list_hosts" =>
             (reg'.listed = Listed(all_hosts) /\ \A i \in DOMAIN reg'.listed : reg'.listed[i].id \notin UploadIds)
        /\ \A t \in UploadIds :
             Live(t)' => get_uri_from_id(all_hosts', temporary_hosts', t) = <<U_temp(t)>> ]_vars

\* C37: from a successful upload_graph with temp_id t, and until t is cleaned
\* up or expires, get_uri_from_id(t) is temp://t and provider_for(temp://t)
\* is the provider instance that stored the file, whatever the file's name
\* and whatever the router held before (a provider registered under the id
\* TemporaryGraphHostProvider included).
C37_UploadIsRoutable ==
    \A t \in UploadIds :
        Live(t) =>
            /\ get_uri_from_id(all_hosts, temporary_hosts, t) = <<U_temp(t)>>
            /\ provider_for(providers, uploaded_files, now, U_temp(t)).value = "temp"

\* Upload t is in the provider's table and past its expiry.
Expired(t) == t \in DOMAIN uploaded_files /\ now > uploaded_files[t].expires_at

\* C38: the upload provider never accepts or serves an expired or removed
\* upload: accepts(temp://t) is true only if t is stored, not cleaned up and
\* not past expires_at; get_networkx_graph(temp://t) raises in every other
\* case; and an entry either call finds expired is removed from the table.
C38_NeverServesExpired ==
    [][ \A t \in UploadIds :
          /\ ProviderAccepts("temp", U_temp(t))
               => /\ ret'.valid = <<TRUE>> => Live(t)
                  /\ Expired(t) => t \notin DOMAIN uploaded_files'
          /\ \A content \in UploadContents :
               TempGetNetworkxGraph(U_temp(t), content)
                 => /\ ret'.raised = None => Live(t)
                    /\ ~Live(t) => ret'.raised \in {"FileNotFoundError", "ValueError"}
                    /\ Expired(t) => t \notin DOMAIN uploaded_files' ]_vars

\* accepts has refused an upload it found expired and has dropped its entry.
C38_Witness ==
    /\ ret.op = "accepts"
    /\ ret.uri = U_temp("t1")
    /\ ret.valid = <<FALSE>>
    /\ now > 1
    /\ FirstWithId(temporary_hosts, 1, "t1") # 0
    /\ "t1" \notin DOMAIN uploaded_files

\* C39: cleanup_temporary_graph(t) is all-or-nothing: when it reports
\* success t is in neither the unlisted collection nor the provider's file
\* table; when it reports failure neither of them has changed.
C39_CleanupAllOrNothing ==
    [][ \A t \in UploadIds, os_error \in BOOLEAN :
          CleanupTemporaryGraph(t, os_error)
            => /\ ret'.valid = <<TRUE>> =>
                    (FirstWithId(temporary_hosts', 1, t) = 0 /\ t \notin DOMAIN uploaded_files')
               /\ ret'.valid = <<FALSE>> =>
                    (temporary_hosts' = temporary_hosts /\ uploaded_files' = uploaded_files) ]_vars

-----------------------------------------------------------------------------
(* Reads of the provider table and of the unlisted hosts while another      *)
(* thread changes them.  The query handlers are plain functions, which the  *)
(* server runs on worker threads; upload_graph runs on the event loop and   *)
(* cleanup_temporary_graph on a worker thread; nothing locks the router or  *)
(* the registry.  One statement of a mutator (a dict store, list.append,    *)
(* del list[i]) is atomic; a reader's for loop can be overtaken between two *)
(* of its iterations.                                                       *)

notScan == <<execVars, handlerVars, aggVars, uploaded_files, now, ret, reg, all_hosts>>

\* The ids changed since the last read began (none before the first read).
Changed(id) == IF scan.phase = "idle" THEN scan.changed ELSE scan.changed \cup {id}

\* provider_for(uri) begins: iter(self._providers.items()) remembers the dict's size.
ScanProviderFor(uri) ==
    /\ scan.phase \in {"idle", "done"}
    /\ scan' = [NoScan EXCEPT !.op = "provider_for", !.uri = uri, !.phase = "items",
                               !.size = Len(providers)]
    /\ UNCHANGED <<providers, temporary_hosts>>
    /\ UNCHANGED notScan

\* One round of provider_for's loop: the dict iterator raises RuntimeError
\* when the dict's size is no longer the one it remembers, stops after the
\* last item, and else hands out the next item, which accepts(uri) is asked about.
ScanNextProvider ==
    /\ scan.phase = "items"
    /\ scan' =
         IF Len(providers) # scan.size
         THEN [scan EXCEPT !.phase = "done", !.raised = "RuntimeError"]
         ELSE IF scan.pos >= Len(providers)
         THEN [scan EXCEPT !.phase = "done"]
         ELSE IF Accepts(providers[scan.pos + 1].provider, uploaded_files, now, scan.uri).ok
         THEN [scan EXCEPT !.phase = "done", !.value = providers[scan.pos + 1].provider]
         ELSE [scan EXCEPT !.pos = @ + 1]
    /\ UNCHANGED <<providers, temporary_hosts>>
    /\ UNCHANGED notScan

\* get_uri_from_id(id) begins: the loop over all_hosts (which nothing
\* changes), then iter(self.temporary_hosts).
ScanGetUriFromId(id) ==
    /\ scan.phase \in {"idle", "done"}
    /\ scan' =
         LET a == FirstWithId(all_hosts, 1, id) IN
         IF a # 0
         THEN [NoScan EXCEPT !.op = "get_uri_from_id", !.id = id, !.phase = "done",
                             !.found_uri = <<all_hosts[a].uri>>]
         ELSE [NoScan EXCEPT !.op = "get_uri_from_id", !.id = id, !.phase = "unlisted"]
    /\ UNCHANGED <<providers, temporary_hosts>>
    /\ UNCHANGED notScan

\* One round of the loop over temporary_hosts: the list iterator hands out
\* the item at its index if the list is that long now, and stops otherwise.
ScanNextHost ==
    /\ scan.phase = "unlisted"
    /\ scan' =
         IF scan.pos >= Len(temporary_hosts)
         THEN [scan EXCEPT !.phase = "done"]
         ELSE IF temporary_hosts[scan.pos + 1].id = scan.id
         THEN [scan EXCEPT !.phase = "done", !.found_uri = <<temporary_hosts[scan.pos + 1].uri>>]
         ELSE [scan EXCEPT !.pos = @ + 1]
    /\ UNCHANGED <<providers, temporary_hosts>>
    /\ UNCHANGED notScan

\* router.add_provider(id, provider) on another thread
ConcurrentAddProvider(id, provider) ==
    /\ providers' = DictSet(providers, id, provider)
    /\ scan' = [scan EXCEPT !.changed = Changed(id)]
    /\ UNCHANGED temporary_hosts
    /\ UNCHANGED notScan

\* commons.add_temporary_host(host) on another thread; an upload's id is new
ConcurrentAddTemporaryHost(host) ==
    /\ Len(temporary_hosts) < MaxTempHosts
    /\ FirstWithId(temporary_hosts, 1, host.id) = 0
    /\ temporary_hosts' = Append(temporary_hosts, host)
    /\ scan' = [scan EXCEPT !.changed = Changed(host.id)]
    /\ UNCHANGED providers
    /\ UNCHANGED notScan

\* commons.remove_temporary_host(host_id) on another thread
ConcurrentRemoveTemporaryHost(host_id) ==
    /\ temporary_hosts' = remove_temporary_host(temporary_hosts, host_id).hosts
    /\ scan' = [scan EXCEPT !.changed = Changed(host_id)]
    /\ UNCHANGED providers
    /\ UNCHANGED notScan

\* The providers another thread registers, and the URIs read.
ConcurrentProviders == {"fs", "s3_foo_1"}
ScanUris == {U_file, U_s3_foo}

\* The server is up: a configuration with one host and a filesystem provider or none.
ScanInit ==
    /\ providers \in {<<>>, <<[id |-> "ID1", provider |-> "fs"]>>}
    /\ all_hosts = <<Listing("h1", U_file, "A")>>
    /\ temporary_hosts = <<>>
    /\ scan = NoScan
    /\ request = NoRequest
    /\ max_duration_seconds = <<>>
    /\ query_limits = NoQueryLimits
    /\ machine = NoMachine
    /\ ram_limit = <<>>
    /\ hpc = "idle"
    /\ bounded = <<>>
    /\ direct = <<>>
    /\ response = NoResponse
    /\ uploaded_files = [t \in {} |-> None]
    /\ now = 0
    /\ ret = NoRouterCall
    /\ reg = NoRegistryCall
    /\ call = NoInvocation
    /\ cpc = "idle"
    /\ wpc = "unstarted"
    /\ clock = 0
    /\ deadline = <<>>
    /\ finish_at = 0
    /\ feeder = <<>>
    /\ pipe = <<>>
    /\ signals = NoSignals
    /\ starts = 0
    /\ outcome = NoOutcome
    /\ rlimit = NoLimits
    /\ attempts = <<>>
    /\ agg = NoAggCall

ScanProviderForStep == \E uri \in ScanUris : ScanProviderFor(uri)
ScanGetUriFromIdStep == \E id \in UploadIds \cup {"h1"} : ScanGetUriFromId(id)
ConcurrentAddProviderStep ==
    \E id \in ProviderIds, p \in ConcurrentProviders : ConcurrentAddProvider(id, p)
ConcurrentAddTemporaryHostStep ==
    \E t \in UploadIds : ConcurrentAddTemporaryHost(Listing(t, U_temp(t), "upload"))
ConcurrentRemoveTemporaryHostStep == \E t \in UploadIds : ConcurrentRemoveTemporaryHost(t)

ScanNext ==
    \/ ScanProviderForStep
    \/ ScanNextProvider
    \/ ScanGetUriFromIdStep
    \/ ScanNextHost
    \/ ConcurrentAddProviderStep
    \/ ConcurrentAddTemporaryHostStep
    \/ ConcurrentRemoveTemporaryHostStep

ScanSpec == ScanInit /\ [][ScanNext]_vars

\* An accepting provider has been registered, untouched, since the read of scan.uri began.
SteadyProvider ==
    \E i \in 1..Len(providers) :
        /\ providers[i].id \notin scan.changed
        /\ Accepts(providers[i].provider, uploaded_files, now, scan.uri).ok

\* The host asked for has been listed, untouched, since the read began.
SteadyHost == scan.id \notin scan.changed /\ FirstWithId(temporary_hosts, 1, scan.id) # 0

\* C31: a read that runs while add_provider, add_temporary_host or
\* remove_temporary_host run on another thread never fails, and finds the
\* provider or host that was there before the read and is there after it.
C31_ReadsAreSafe ==
    scan.phase = "done" =>
        /\ scan.raised = None
        /\ (scan.op = "provider_for" /\ SteadyProvider) => scan.value # None
        /\ (scan.op = "get_uri_from_id" /\ SteadyHost) => scan.found_uri = <<U_temp(scan.id)>>

====
